---- MODULE Spec2Model ----
(***************************************************************************)
(* cqrskit: command routing with cache-mediated state rebuilding, the      *)
(* in-memory event store adapter, the upcaster chain and the asynchronous  *)
(* event handling processor.                                               *)
(*                                                                         *)
(* Strings that the code inspects character by character (subjects) are    *)
(* sequences of character codes; event ids "event-<n>" are the integers    *)
(* n+1, and 0 stands for null.                                             *)
(***************************************************************************)
EXTENDS Integers, Sequences, FiniteSets, TLC

VARIABLES
  events,      \* InMemoryAdapter.events: the store, in publish order
  cache,       \* InMemoryStateCache.cache: entries in Map insertion order
  calls,       \* one record per CommandRouter.send call site: its locals,
               \* and in snap the length of the store when it began
  sent,        \* number of send calls started so far
  fullReads,   \* per cache key: streams opened without lower bound that
               \* found an applicable event, since the key was last evicted
  proc,        \* EventHandlingProcessor: fields and position in run()
  progress,    \* InMemoryProgressTracker.progress, per partition of the group
  hist,        \* what the processor did per raw event (attempts, commits, ...)
               \* and the progress at the last entry into run()'s catch block
  upcasters,   \* EventUpcasters.upcasters: the chain, in registration order
  lastUpcast,  \* the last EventUpcasters.upcast call: the chain it ran,
               \* its argument and its outcome
  partitioner, \* a DefaultPartitionKeyResolver: its partitionCount, and the
               \* argument and the results of the resolve calls made on it
  taskResult,  \* the last command sent to the task example: the command, the
               \* task it was handled on and how the send ended
  rebuilder,   \* a router's stateRebuildingHandlers as configured, and the
               \* last applyStateRebuilding call made on it
  propagation, \* a router's metadataPropagation as configured, and the last
               \* event data serialized under it
  lru,         \* InMemoryStateCache.capacity, the fetchAndMerge calls awaiting
               \* their merger per key, and the keys in order of their last
               \* completed fetchAndMerge
  others,      \* the other processors of the group, by partition: the fields
               \* and the history of each while it is suspended at an await
  streamed     \* the last streamEvents call made on the adapter directly: its
               \* arguments and the events it yielded

vars == <<events, cache, calls, sent, fullReads, proc, progress, hist, upcasters, lastUpcast,
         partitioner, taskResult, rebuilder, propagation, lru, others, streamed>>
routerVars == <<events, cache, calls, sent, fullReads>>
procVars == <<proc, progress, hist>>
chainVars == <<upcasters, lastUpcast>>
unitVars == <<partitioner, taskResult, rebuilder, propagation, lru, others, streamed>>

----------------------------------------------------------------------------
(* Bounds *)

MaxEvents == 2      \* events the store may hold
MaxSends == 3       \* send calls started in one behaviour
MaxUpcasters == 3   \* upcasters added to one chain
MaxKeyLen == 2      \* length of the generated sequence ids
MaxResolves == 2    \* resolve calls on one sequence id
MaxTaskEvents == 6  \* events published for the task
MaxHandlers == 3    \* state-rebuilding handlers configured on one router
MaxCapacity == 2    \* capacity of an InMemoryStateCache
MaxInFlight == 2    \* fetchAndMerge calls awaiting their merger at one time

Callers == {"c1", "c2"}

----------------------------------------------------------------------------
(* Values *)

NoEventId == 0                       \* null event id
NoInstance == <<>>                   \* null instance
NoMetadata == [k \in {} |-> 0]       \* {}

SubjT == <<47, 116>>                 \* "/t"
SubjTC == <<47, 116, 47, 99>>        \* "/t/c"
SubjTD == <<47, 116, 47, 100>>       \* "/t/d"
Slash == <<47>>

StartsWith(s, p) == Len(s) >= Len(p) /\ SubSeq(s, 1, Len(p)) = p

RECURSIVE Flatten(_)
Flatten(ss) == IF ss = <<>> THEN <<>> ELSE Head(ss) \o Flatten(Tail(ss))

----------------------------------------------------------------------------
(* Event type resolver and marshaller *)

\* ConfiguredEventTypeResolver with the aggregate's two event classes
\* registered under their own names.
RegisteredTypes == {"Created", "Renamed"}

\* getClass: the class, or a throw for a type string nobody registered
getClassThrows(type) == type \notin RegisteredTypes

\* JsonEventDataMarshaller.serialize: { ...metadata, payload }
serialize(metadata, payload) ==
  [k \in (DOMAIN metadata) \cup {"payload"} |->
     IF k = "payload" THEN payload ELSE metadata[k]]

\* JsonEventDataMarshaller.deserialize: const { payload, ...metadata } = json
deserialize(json) ==
  [payload  |-> IF "payload" \in DOMAIN json THEN json["payload"] ELSE 0,
   metadata |-> [k \in (DOMAIN json) \ {"payload"} |-> json[k]]]

----------------------------------------------------------------------------
(* Upcaster chain *)

\* The registered upcasters, in registration order. Each claims one type
\* (canUpcast) and returns its results (upcast): a two-stage migration
\* LegacyV1 -> LegacyV2 -> Created + Renamed, a drop, and an upcaster that
\* throws on the events it claims.
Upcasters ==
  << [from |-> "LegacyV1", to |-> <<"LegacyV2">>, add |-> 10, throws |-> FALSE],
     [from |-> "LegacyV2", to |-> <<"Created", "Renamed">>, add |-> 20, throws |-> FALSE],
     [from |-> "Obsolete", to |-> <<>>, add |-> 0, throws |-> FALSE],
     [from |-> "Corrupt",  to |-> <<>>, add |-> 0, throws |-> TRUE] >>

canUpcast(u, evt) == evt.type = u.from

UpcastOneRestamped(u, evt) ==
  [i \in 1..Len(u.to) |->
     [evt EXCEPT !.type = u.to[i], !.time = 0,
                 !.data = [evt.data EXCEPT !["payload"] = @ + u.add + (i - 1)]]]

\* one upcaster's results for one event, each spread over the event
UpcastOne(u, evt) ==
  [i \in 1..Len(u.to) |->
     [evt EXCEPT !.type = u.to[i],
                 !.data = [evt.data EXCEPT !["payload"] = @ + u.add + (i - 1)]]]

RECURSIVE UpcastPassFirstOnly(_, _)
UpcastPassFirstOnly(u, evts) ==
  IF evts = <<>> THEN <<>>
  ELSE (IF canUpcast(u, Head(evts)) THEN UpcastOne(u, Head(evts)) ELSE <<Head(evts)>>)
       \o Tail(evts)

\* one pass of the chain: the inner loop over the current events
RECURSIVE UpcastPass(_, _)
UpcastPass(u, evts) ==
  IF evts = <<>> THEN <<>>
  ELSE (IF canUpcast(u, Head(evts)) THEN UpcastOne(u, Head(evts)) ELSE <<Head(evts)>>)
       \o UpcastPass(u, Tail(evts))

\* EventUpcasters.upcast: [threw, events]
RECURSIVE UpcastFrom(_, _)
UpcastFrom(us, evts) ==
  IF us = <<>> THEN [threw |-> FALSE, events |-> evts]
  ELSE IF Head(us).throws /\ \E i \in 1..Len(evts) : canUpcast(Head(us), evts[i]) THEN [threw |-> TRUE, events |-> <<>>]
  ELSE UpcastFrom(Tail(us), UpcastPass(Head(us), evts))

upcast(event) == UpcastFrom(upcasters, <<event>>)

\* upcasters a chain may be built from: the registered ones, a one-to-one
\* LegacyV2 -> Created migration and a split of LegacyV1 into two LegacyV2
V2toV3 == [from |-> "LegacyV2", to |-> <<"Created">>, add |-> 100, throws |-> FALSE]
SplitV1 == [from |-> "LegacyV1", to |-> <<"LegacyV2", "LegacyV2">>, add |-> 10, throws |-> FALSE]

NotUpcast ==
  [called |-> FALSE, upcasters |-> <<>>,
   event |-> [id |-> NoEventId, type |-> "", subject |-> <<>>, data |-> [payload |-> 0]],
   threw |-> FALSE, events |-> <<>>]

\* EventUpcasters.add
add(upcaster) ==
  /\ Len(upcasters) < MaxUpcasters
  /\ upcasters' = Append(upcasters, upcaster)
  /\ UNCHANGED <<routerVars, procVars, lastUpcast, unitVars>>

\* a call of EventUpcasters.upcast
UpcastCall(event) ==
  /\ lastUpcast' = [called |-> TRUE, upcasters |-> upcasters, event |-> event,
                    threw |-> upcast(event).threw, events |-> upcast(event).events]
  /\ UNCHANGED <<routerVars, procVars, upcasters, unitVars>>

----------------------------------------------------------------------------
(* In-memory event store adapter *)

filterEventsByPrefix(subject, recursive, n) ==
  SelectSeq(SubSeq(events, 1, n),
            LAMBDA e : e.subject = subject
                       \/ (recursive /\ StartsWith(e.subject, subject)))

\* InMemoryAdapter.filterEventsBySubject over the first n stored events
filterEventsBySubject(subject, recursive, n) ==
  SelectSeq(SubSeq(events, 1, n),
            LAMBDA e : e.subject = subject
                       \/ (recursive /\ StartsWith(e.subject, subject \o Slash)))

\* InMemoryAdapter.streamEvents with the lower-bound options the router and
\* the processor pass; the list is fixed when the generator body first runs,
\* n being the length of the store at that moment.
streamEvents(subject, lowerBound, includeLowerBound, recursive, n) ==
  LET filtered == filterEventsBySubject(subject, recursive, n)
      lowerIndex == IF \E i \in 1..Len(filtered) : filtered[i].id = lowerBound
                    THEN CHOOSE i \in 1..Len(filtered) :
                           /\ filtered[i].id = lowerBound
                           /\ \A j \in 1..(i - 1) : filtered[j].id # lowerBound
                    ELSE 0
  IN IF lowerBound # NoEventId /\ lowerIndex > 0
     THEN SubSeq(filtered, lowerIndex + (IF includeLowerBound THEN 0 ELSE 1), Len(filtered))
     ELSE filtered

\* before any direct streamEvents call
NoStream ==
  [called |-> FALSE, subject |-> <<>>, recursive |-> FALSE, lowerBound |-> NoEventId,
   yielded |-> <<>>]

\* for await (const e of adapter.streamEvents(subject, { lowerBound,
\* includeLowerBound: false }, recursive)): the events collected
StreamCall(subject, lowerBound, recursive) ==
  /\ streamed' = [called |-> TRUE, subject |-> subject, recursive |-> recursive,
                lowerBound |-> lowerBound,
                yielded |-> streamEvents(subject, lowerBound, FALSE, recursive, Len(events))]
  /\ UNCHANGED <<routerVars, procVars, chainVars, partitioner, taskResult, rebuilder,
                 propagation, lru, others>>

\* InMemoryAdapter.checkPrecondition: TRUE when the precondition throws
checkPreconditionThrows(precondition) ==
  /\ precondition.type = "isSubjectNew"
  /\ \E i \in 1..Len(events) : events[i].subject = precondition.subject

\* the raw events publishEvents creates for a batch, ids from idCounter
NewRawEvents(batch) ==
  [i \in 1..Len(batch) |->
     [id |-> Len(events) + i, type |-> batch[i].type,
      subject |-> batch[i].subject, data |-> batch[i].data]]

----------------------------------------------------------------------------
(* State-rebuilding handlers of the aggregate *)

\* stateRebuildingHandlers in registration order: the handlers of the
\* aggregate class the commands name. An instance is the list of values
\* folded into it: "create" builds a fresh instance from the event alone,
\* "append" reads the instance it is given, so throws a TypeError on null,
\* and adds the payload plus its own tag.
InstanceClass == "Aggregate"

StateRebuildingHandlers ==
  << [instanceClass |-> InstanceClass, eventClass |-> "Created", kind |-> "create", tag |-> 0],
     [instanceClass |-> InstanceClass, eventClass |-> "Renamed", kind |-> "append", tag |-> 0] >>

HandlersForAnyClass(defs, instanceClass) == defs

\* the Map the constructor builds, read with get(instanceClass.name) || []
HandlersFor(defs, instanceClass) ==
  SelectSeq(defs, LAMBDA def : def.instanceClass = instanceClass)

\* CommandRouter.applyStateRebuilding: the loop over the handlers of the
\* instance class; [threw, instance]
RECURSIVE ApplyHandlers(_, _, _, _)
ApplyHandlers(hs, instance, eventName, payload) ==
  IF hs = <<>> THEN [threw |-> FALSE, instance |-> instance]
  ELSE IF Head(hs).eventClass # eventName
       THEN ApplyHandlers(Tail(hs), instance, eventName, payload)
  ELSE IF Head(hs).kind = "create"
       THEN ApplyHandlers(Tail(hs), <<payload + Head(hs).tag>>, eventName, payload)
  ELSE IF instance = NoInstance
       THEN [threw |-> TRUE, instance |-> instance]
  ELSE ApplyHandlers(Tail(hs), Append(instance, payload + Head(hs).tag), eventName, payload)

applyStateRebuilding(instance, eventName, payload) ==
  ApplyHandlers(HandlersFor(StateRebuildingHandlers, InstanceClass), instance, eventName, payload)

RECURSIVE HandlerLists(_)
HandlerLists(n) ==
  IF n = 0 THEN {<<>>}
  ELSE HandlerLists(n - 1) \cup
       {Append(defs, def) : defs \in {x \in HandlerLists(n - 1) : Len(x) = n - 1},
                            def \in ({StateRebuildingHandlers[i] : i \in 1..Len(StateRebuildingHandlers)} \cup {[instanceClass |-> InstanceClass, eventClass |-> "Renamed", kind |-> "append", tag |-> 100], [instanceClass |-> InstanceClass, eventClass |-> "Created", kind |-> "append", tag |-> 300], [instanceClass |-> "Other", eventClass |-> "Renamed", kind |-> "append", tag |-> 200]})}

\* new CommandRouter(config) with config.stateRebuildingHandlers = defs
NewRebuilder(defs) ==
  [handlers |-> defs, called |-> FALSE, instance |-> NoInstance, eventName |-> "",
   payload |-> 0, threw |-> FALSE, result |-> NoInstance]

\* a call of applyStateRebuilding for the aggregate class
Apply(instance, eventName, payload) ==
  /\ LET r == ApplyHandlers(HandlersFor(rebuilder.handlers, InstanceClass),
                            instance, eventName, payload)
     IN rebuilder' = [rebuilder EXCEPT !.called = TRUE, !.instance = instance,
                                       !.eventName = eventName, !.payload = payload,
                                       !.threw = r.threw, !.result = r.instance]
  /\ UNCHANGED <<routerVars, procVars, chainVars, partitioner, taskResult, propagation, lru, others, streamed>>

----------------------------------------------------------------------------
(* CommandRouter.rebuildState: the merger passed to the cache *)

NullCached == [present |-> FALSE, eventId |-> NoEventId, instance |-> NoInstance]

RECURSIVE FoldUpcastedStale(_, _)
FoldUpcastedStale(acc, ups) ==
  IF ups = <<>> THEN acc
  ELSE LET e == Head(ups)
           r == applyStateRebuilding(acc.instance, e.type, deserialize(e.data).payload)
       IN IF getClassThrows(e.type) \/ r.threw
          THEN FoldUpcastedStale(acc, Tail(ups))
          ELSE FoldUpcastedStale([acc EXCEPT !.instance = r.instance], Tail(ups))

RECURSIVE FoldUpcastedAdvancing(_, _)
FoldUpcastedAdvancing(acc, ups) ==
  IF ups = <<>> THEN acc
  ELSE LET e == Head(ups)
           r == applyStateRebuilding(acc.instance, e.type, deserialize(e.data).payload)
       IN IF getClassThrows(e.type) \/ r.threw
          THEN FoldUpcastedAdvancing([acc EXCEPT !.eventId = e.id], Tail(ups))
          ELSE FoldUpcastedAdvancing([acc EXCEPT !.instance = r.instance, !.eventId = e.id],
                                     Tail(ups))

RECURSIVE FoldUpcastedRethrowing(_, _)
FoldUpcastedRethrowing(acc, ups) ==
  IF ups = <<>> \/ acc.threw THEN acc
  ELSE LET e == Head(ups)
           r == applyStateRebuilding(acc.instance, e.type, deserialize(e.data).payload)
       IN IF getClassThrows(e.type)
          THEN FoldUpcastedRethrowing(acc, Tail(ups))
          ELSE IF r.threw
          THEN [acc EXCEPT !.threw = TRUE]
          ELSE FoldUpcastedRethrowing([acc EXCEPT !.instance = r.instance, !.eventId = e.id],
                                      Tail(ups))

\* the inner loop over the upcast results of one raw event; a throw of
\* getClass, deserialize or a handler skips that result
RECURSIVE FoldUpcasted(_, _)
FoldUpcasted(acc, ups) ==
  IF ups = <<>> THEN acc
  ELSE LET e == Head(ups)
           r == applyStateRebuilding(acc.instance, e.type, deserialize(e.data).payload)
       IN IF getClassThrows(e.type) \/ r.threw
          THEN FoldUpcasted(acc, Tail(ups))
          ELSE FoldUpcasted([acc EXCEPT !.instance = r.instance, !.eventId = e.id],
                            Tail(ups))

\* the for-await loop over the streamed raw events; upcast is outside the
\* try block, so its throw leaves the merger
RECURSIVE FoldStream(_, _)
FoldStream(acc, stream) ==
  IF stream = <<>> \/ acc.threw THEN acc
  ELSE LET up == upcast(Head(stream))
       IN IF up.threw THEN [acc EXCEPT !.threw = TRUE]
          ELSE FoldStream(FoldUpcasted(acc, up.events), Tail(stream))

\* stream position the merger resumes from: cached?.eventId || null
ResumeFrom(cached) == IF cached.present THEN cached.eventId ELSE NoEventId

StreamOptionsInclusive(currentEventId) ==
  [lowerBound |-> currentEventId, includeLowerBound |-> TRUE]

\* the options of the stream: after the cached position, or undefined
StreamOptions(currentEventId) ==
  [lowerBound |-> currentEventId, includeLowerBound |-> FALSE]

\* the merger: [threw, eventId, instance] from the cached value and the
\* store as it was (n events) when the stream was opened
merger(cached, subject, recursive, n) ==
  FoldStream([threw    |-> FALSE,
              eventId  |-> ResumeFrom(cached),
              instance |-> IF cached.present THEN cached.instance ELSE NoInstance],
             streamEvents(subject, StreamOptions(ResumeFrom(cached)).lowerBound,
                          StreamOptions(ResumeFrom(cached)).includeLowerBound, recursive, n))

\* NoStateRebuildingCache.fetchAndMerge: merger(null)
NoCacheFetchAndMerge(subject, recursive, n) == merger(NullCached, subject, recursive, n)

----------------------------------------------------------------------------
(* InMemoryStateCache *)

\* new InMemoryStateCache(capacity), used for three keys
NewCache(capacity) ==
  [capacity |-> capacity,
   inflight |-> [k \in {<<SubjT, "LOCAL">>, <<SubjT, "RECURSIVE">>, <<SubjTC, "LOCAL">>} |-> 0],
   order |-> <<>>]

buildKey(subject, sourcingMode) == <<subject, sourcingMode>>

CacheKeys == {buildKey(SubjT, "LOCAL"), buildKey(SubjT, "RECURSIVE")}

CacheHas(c, k) == \E i \in 1..Len(c) : c[i].key = k

\* this.cache.get(cacheKey) || null
CacheGet(c, k) ==
  IF CacheHas(c, k)
  THEN LET i == CHOOSE j \in 1..Len(c) : c[j].key = k
       IN [present |-> TRUE, eventId |-> c[i].value.eventId, instance |-> c[i].value.instance]
  ELSE NullCached

\* Map.set: an existing key keeps its place, a new key goes last
CacheSet(c, k, v) ==
  IF CacheHas(c, k)
  THEN [i \in 1..Len(c) |-> IF c[i].key = k THEN [key |-> k, value |-> v] ELSE c[i]]
  ELSE Append(c, [key |-> k, value |-> v])

\* fetchAndMerge up to the await: the cached value, and the cache with a
\* hit removed
FetchStart(c, k) == IF CacheHas(c, k) THEN SelectSeq(c, LAMBDA en : en.key # k) ELSE c

\* fetchAndMerge after the await: set, then evict
FetchFinish(c, k, v) ==
  LET stored == CacheSet(c, k, v)
  IN IF Len(stored) > lru.capacity THEN Tail(stored) ELSE stored

\* a fetchAndMerge call for key k up to the await of its merger
FetchBegin(k) ==
  /\ lru.inflight[<<SubjT, "LOCAL">>] + lru.inflight[<<SubjT, "RECURSIVE">>]
       + lru.inflight[<<SubjTC, "LOCAL">>] < MaxInFlight
  /\ cache' = FetchStart(cache, k)
  /\ lru' = [lru EXCEPT !.inflight[k] = @ + 1]
  /\ UNCHANGED <<events, calls, sent, fullReads, procVars, chainVars,
                 partitioner, taskResult, rebuilder, propagation, others, streamed>>

\* the merger of a fetchAndMerge call for key k has returned: the rest of
\* the call
FetchEnd(k) ==
  /\ lru.inflight[k] > 0
  /\ cache' = FetchFinish(cache, k, [eventId |-> NoEventId, instance |-> NoInstance])
  /\ lru' = [lru EXCEPT !.inflight[k] = @ - 1,
                        !.order = Append(SelectSeq(@, LAMBDA kk : kk # k), k)]
  /\ UNCHANGED <<events, calls, sent, fullReads, procVars, chainVars,
                 partitioner, taskResult, rebuilder, propagation, others, streamed>>

----------------------------------------------------------------------------
(* Commands and command handlers *)

Pub(type, payload, pre) ==
  [op |-> "publish", type |-> type, payload |-> payload,
   metadata |-> NoMetadata, preconditions |-> pre]

IsSubjectNew(subject) == [type |-> "isSubjectNew", subject |-> subject]
Custom(subject) == [type |-> "custom", subject |-> subject]

\* The registered command handler definitions, by command class name, with
\* what the command class itself declares (getSubject, getSubjectCondition).
\* arity is handler.length; script is what the handler body does.
CommandHandlers ==
  [Create |->
     [subject |-> SubjT, condition |-> "NEW", sourcingMode |-> "LOCAL", arity |-> 2,
      script |-> <<Pub("Created", 1, <<>>)>>],
   Rename |->
     [subject |-> SubjT, condition |-> "EXISTS", sourcingMode |-> "LOCAL", arity |-> 3,
      script |-> <<Pub("Renamed", 2, <<>>)>>],
   CreateAndRename |->
     [subject |-> SubjT, condition |-> "NEW", sourcingMode |-> "LOCAL", arity |-> 2,
      script |-> <<Pub("Created", 1, <<IsSubjectNew(SubjT)>>),
                   Pub("Renamed", 2, <<Custom(SubjT)>>)>>],
   Audit |->
     [subject |-> SubjT, condition |-> "EXISTS", sourcingMode |-> "RECURSIVE", arity |-> 3,
      script |-> <<>>],
   Reject |->
     [subject |-> SubjT, condition |-> "NONE", sourcingMode |-> "LOCAL", arity |-> 2,
      script |-> <<Pub("Renamed", 2, <<>>), [op |-> "throw"]>>],
   Import |->
     [subject |-> SubjT, condition |-> "NEW", sourcingMode |-> "NONE", arity |-> 2,
      script |-> <<Pub("Created", 1, <<IsSubjectNew(SubjT)>>)>>]]

\* command classes a caller may send; Unknown has no registered handler
CommandNames == (DOMAIN CommandHandlers) \cup {"Unknown"}

PublishCount(name) ==
  IF name \in DOMAIN CommandHandlers
  THEN Cardinality({i \in 1..Len(CommandHandlers[name].script) :
                      CommandHandlers[name].script[i].op = "publish"})
  ELSE 0

\* CommandRouter.validateSubjectCondition: TRUE when it throws
validateSubjectConditionThrows(condition, lastEventId) ==
  \/ condition = "NEW" /\ lastEventId # NoEventId
  \/ condition = "EXISTS" /\ lastEventId = NoEventId

\* metadataPropagation of the router configuration
PropagationMode == propagation.mode
PropagationKeys == propagation.keys

\* CommandRouter.propagateMetadata
propagateMetadata(commandMetadata, eventMetadata) ==
  IF PropagationMode = "NONE" THEN eventMetadata
  ELSE IF PropagationMode = "DEEP"
       THEN [k \in (DOMAIN commandMetadata) \cup (DOMAIN eventMetadata) |->
               IF k \in DOMAIN eventMetadata THEN eventMetadata[k] ELSE commandMetadata[k]]
  ELSE [k \in (DOMAIN eventMetadata) \cup (PropagationKeys \cap DOMAIN commandMetadata) |->
          IF k \in PropagationKeys \cap DOMAIN commandMetadata
          THEN commandMetadata[k] ELSE eventMetadata[k]]

\* step 6 of send: the batch for the captured events
eventsToPublish(subject, capturedEvents) ==
  [i \in 1..Len(capturedEvents) |->
     [subject |-> subject,
      type |-> capturedEvents[i].type,
      data |-> serialize(propagateMetadata(NoMetadata, capturedEvents[i].metadata),
                         capturedEvents[i].payload),
      preconditions |-> capturedEvents[i].preconditions]]

\* config.metadataPropagation || { mode: NONE }, nothing serialized yet
NoPropagation ==
  [mode |-> "NONE", keys |-> {}, called |-> FALSE,
   commandMetadata |-> NoMetadata, eventMetadata |-> NoMetadata, data |-> NoMetadata]

\* step 6 of send for one captured event: the data the marshaller returns
\* for the propagated metadata and the payload
SerializeCall(commandMetadata, eventMetadata) ==
  /\ propagation' =
       [propagation EXCEPT !.called = TRUE,
                           !.commandMetadata = commandMetadata,
                           !.eventMetadata = eventMetadata,
                           !.data = serialize(propagateMetadata(commandMetadata, eventMetadata), 1)]
  /\ UNCHANGED <<routerVars, procVars, chainVars, partitioner, taskResult, rebuilder, lru, others, streamed>>

firstPreconditions(capturedEvents) == capturedEvents[1].preconditions

\* capturedEvents.flatMap(c => c.preconditions)
allPreconditions(capturedEvents) ==
  Flatten([i \in 1..Len(capturedEvents) |-> capturedEvents[i].preconditions])

----------------------------------------------------------------------------
(* One send call *)

IdleCall ==
  [pc |-> "idle", cmd |-> "none", cached |-> NullCached, snap |-> 0,
   instance |-> NoInstance, lastEventId |-> NoEventId,
   handler |-> "none", hpos |-> 0, capturedEvents |-> <<>>,
   updatedInstance |-> NoInstance, replayIn |-> <<>>,
   publishCalls |-> <<>>, error |-> "none"]

Def(c) == CommandHandlers[calls[c].cmd]
KeyOf(c) == buildKey(Def(c).subject, Def(c).sourcingMode)
Failed(c, why) == [calls[c] EXCEPT !.pc = "failed", !.error = why]

\* events the calls in flight may still publish
Pending == LET RECURSIVE Sum(_)
               Sum(S) == IF S = {} THEN 0
                         ELSE LET x == CHOOSE y \in S : TRUE
                              IN (IF calls[x].pc \in {"idle", "done", "failed"} THEN 0
                                  ELSE PublishCount(calls[x].cmd)) + Sum(S \ {x})
           IN Sum(Callers)

\* an opened stream counts as a read from the beginning when it has no
\* lower bound and holds an event the fold applies
IsFullRead(cached, subject, recursive, n) ==
  /\ ResumeFrom(cached) = NoEventId
  /\ NoCacheFetchAndMerge(subject, recursive, n).eventId # NoEventId

\* the locals of rebuildState and of the handler invocation are gone once
\* the handler has returned or send has thrown
Leave(call) == [call EXCEPT !.cached = NullCached, !.snap = 0, !.hpos = 0]

ValidatedAfterInvoking(call, def) ==
  [call EXCEPT !.pc = "handling", !.handler = "running", !.hpos = 1]

\* steps 2 and 4 up to the handler's first statement: the subject condition
\* is validated and, when it holds, the command handler is invoked
Validated(call, def) ==
  IF validateSubjectConditionThrows(def.condition, call.lastEventId)
  THEN Leave([call EXCEPT !.pc = "failed", !.error = "SubjectCondition"])
  ELSE [call EXCEPT !.pc = "handling", !.handler = "running", !.hpos = 1]

SendFetchingFirst(c, name) ==
  /\ calls[c].pc \in {"idle", "done", "failed"}
  /\ sent < MaxSends
  /\ Len(events) + Pending + PublishCount(name) <= MaxEvents
  /\ sent' = sent + 1
  /\ UNCHANGED <<events, procVars, chainVars, unitVars>>
  /\ IF name \notin DOMAIN CommandHandlers
     THEN /\ calls' = [calls EXCEPT ![c] =
                         [IdleCall EXCEPT !.pc = "failed", !.cmd = name, !.error = "NoHandler"]]
          /\ cache' = FetchStart(cache, buildKey(SubjT, "LOCAL"))
          /\ UNCHANGED fullReads
     ELSE LET def == CommandHandlers[name]
              k == buildKey(def.subject, def.sourcingMode)
              cached == CacheGet(cache, k)
          IN IF def.sourcingMode = "NONE"
             THEN /\ calls' = [calls EXCEPT ![c] =
                                 Validated([IdleCall EXCEPT !.cmd = name,
                                                            !.snap = Len(events)], def)]
                  /\ UNCHANGED <<cache, fullReads>>
             ELSE /\ cache' = FetchStart(cache, k)
                  /\ calls' = [calls EXCEPT ![c] =
                                 [IdleCall EXCEPT !.pc = "merging", !.cmd = name,
                                                  !.cached = cached, !.snap = Len(events)]]
                  /\ fullReads' =
                       IF IsFullRead(cached, def.subject, def.sourcingMode = "RECURSIVE", Len(events))
                       THEN [fullReads EXCEPT ![k] = @ + 1]
                       ELSE fullReads

\* send up to its first suspension: handler lookup, then rebuildState up to
\* the stream's first event (cache.get, delete of a hit, the store
\* filtered); with sourcing mode NONE rebuildState returns at once
Send(c, name) ==
  /\ calls[c].pc \in {"idle", "done", "failed"}
  /\ sent < MaxSends
  /\ Len(events) + Pending + PublishCount(name) <= MaxEvents
  /\ sent' = sent + 1
  /\ UNCHANGED <<events, procVars, chainVars, unitVars>>
  /\ IF name \notin DOMAIN CommandHandlers
     THEN /\ calls' = [calls EXCEPT ![c] =
                         [IdleCall EXCEPT !.pc = "failed", !.cmd = name, !.error = "NoHandler"]]
          /\ UNCHANGED <<cache, fullReads>>
     ELSE LET def == CommandHandlers[name]
              k == buildKey(def.subject, def.sourcingMode)
              cached == CacheGet(cache, k)
          IN IF def.sourcingMode = "NONE"
             THEN /\ calls' = [calls EXCEPT ![c] =
                                 Validated([IdleCall EXCEPT !.cmd = name,
                                                            !.snap = Len(events)], def)]
                  /\ UNCHANGED <<cache, fullReads>>
             ELSE /\ cache' = FetchStart(cache, k)
                  /\ calls' = [calls EXCEPT ![c] =
                                 [IdleCall EXCEPT !.pc = "merging", !.cmd = name,
                                                  !.cached = cached, !.snap = Len(events)]]
                  /\ fullReads' =
                       IF IsFullRead(cached, def.subject, def.sourcingMode = "RECURSIVE", Len(events))
                       THEN [fullReads EXCEPT ![k] = @ + 1]
                       ELSE fullReads

\* the merger runs to its end; fetchAndMerge stores the merged value and
\* evicts; rebuildState returns and send goes on to steps 2 and 4
MergeComplete(c) ==
  /\ calls[c].pc = "merging"
  /\ UNCHANGED <<events, sent, procVars, chainVars, unitVars>>
  /\ LET def == Def(c)
         k == KeyOf(c)
         m == merger(calls[c].cached, def.subject, def.sourcingMode = "RECURSIVE", calls[c].snap)
         stored == CacheSet(cache, k, [eventId |-> m.eventId, instance |-> m.instance])
     IN IF m.threw
        THEN /\ calls' = [calls EXCEPT ![c] = Failed(c, "MergeError")]
             /\ UNCHANGED cache
             /\ fullReads' = [kk \in CacheKeys |->
                                IF kk = k /\ ~CacheHas(cache, k) THEN 0 ELSE fullReads[kk]]
        ELSE /\ cache' = FetchFinish(cache, k, [eventId |-> m.eventId, instance |-> m.instance])
             /\ calls' = [calls EXCEPT ![c] =
                            Validated([@ EXCEPT !.instance = m.instance,
                                                !.lastEventId = m.eventId], def)]
             /\ fullReads' = [kk \in CacheKeys |->
                                IF CacheHas(stored, kk) /\ ~CacheHas(cache', kk)
                                THEN 0 ELSE fullReads[kk]]

\* the instance step 5 passes to applyStateRebuilding for the next captured
\* event, given the instance rebuilt before the handler ran and the
\* instance the previous replay returned
ReplayInput(instance, updatedInstance) == updatedInstance

\* step 5: the loop over capturedEvents; replayIn lists the instance each
\* replay received
RECURSIVE ReplayFrom(_, _)
ReplayFrom(call, i) ==
  IF i > Len(call.capturedEvents) THEN call
  ELSE LET in == ReplayInput(call.instance, call.updatedInstance)
           r == applyStateRebuilding(in, call.capturedEvents[i].type,
                                     call.capturedEvents[i].payload)
       IN IF r.threw
          THEN [call EXCEPT !.pc = "failed", !.error = "ReplayError",
                            !.replayIn = Append(@, in)]
          ELSE ReplayFrom([call EXCEPT !.replayIn = Append(@, in),
                                       !.updatedInstance = r.instance], i + 1)

\* the handler has returned: step 5, then step 6 is entered when something
\* was captured, else send returns
AfterHandler(call) ==
  LET replayed == ReplayFrom([call EXCEPT !.handler = "returned",
                                          !.updatedInstance = call.instance], 1)
  IN Leave(IF replayed.pc = "failed" THEN replayed
           ELSE [replayed EXCEPT !.pc = IF Len(call.capturedEvents) > 0
                                        THEN "publish" ELSE "done"])

HandlerStepPublishing(c) ==
  /\ calls[c].pc = "handling"
  /\ UNCHANGED <<events, cache, sent, fullReads, procVars, chainVars, unitVars>>
  /\ LET script == Def(c).script
         i == calls[c].hpos
     IN calls' = [calls EXCEPT ![c] =
          IF i > Len(script)
          THEN AfterHandler(calls[c])
          ELSE IF script[i].op = "throw"
          THEN [AfterHandler(calls[c]) EXCEPT !.handler = "threw"]
          ELSE [@ EXCEPT !.hpos = i + 1,
                         !.capturedEvents =
                            Append(@, [type |-> script[i].type, payload |-> script[i].payload,
                                       metadata |-> script[i].metadata,
                                       preconditions |-> script[i].preconditions])]]

\* the command handler body, one statement at a time: publisher.publish
\* pushes to capturedEvents, a throw leaves send, the end returns
HandlerStep(c) ==
  /\ calls[c].pc = "handling"
  /\ UNCHANGED <<events, cache, sent, fullReads, procVars, chainVars, unitVars>>
  /\ LET script == Def(c).script
         i == calls[c].hpos
     IN calls' = [calls EXCEPT ![c] =
          IF i > Len(script)
          THEN AfterHandler(calls[c])
          ELSE IF script[i].op = "throw"
          THEN Leave([Failed(c, "HandlerError") EXCEPT !.handler = "threw"])
          ELSE [@ EXCEPT !.hpos = i + 1,
                         !.capturedEvents =
                            Append(@, [type |-> script[i].type, payload |-> script[i].payload,
                                       metadata |-> script[i].metadata,
                                       preconditions |-> script[i].preconditions])]]

PublishEventsPartial(c) ==
  /\ calls[c].pc = "publish"
  /\ UNCHANGED <<cache, sent, fullReads, procVars, chainVars, unitVars>>
  /\ LET batch == eventsToPublish(Def(c).subject, calls[c].capturedEvents)
         pre == allPreconditions(calls[c].capturedEvents)
         call == [events |-> batch, preconditions |-> pre, handler |-> calls[c].handler,
                  replayed |-> Len(calls[c].replayIn)]
     IN IF \E i \in 1..Len(pre) : checkPreconditionThrows(pre[i])
        THEN /\ calls' = [calls EXCEPT ![c] =
                            [Failed(c, "PreconditionFailed") EXCEPT !.publishCalls = Append(@, call)]]
             /\ events' = events \o NewRawEvents(<<batch[1]>>)
        ELSE /\ calls' = [calls EXCEPT ![c] =
                            [@ EXCEPT !.pc = "done", !.publishCalls = Append(@, call)]]
             /\ events' = events \o NewRawEvents(batch)

\* InMemoryAdapter.publishEvents as called by step 6: every precondition is
\* checked, then every event is stored
PublishEvents(c) ==
  /\ calls[c].pc = "publish"
  /\ UNCHANGED <<cache, sent, fullReads, procVars, chainVars, unitVars>>
  /\ LET batch == eventsToPublish(Def(c).subject, calls[c].capturedEvents)
         pre == allPreconditions(calls[c].capturedEvents)
         call == [events |-> batch, preconditions |-> pre, handler |-> calls[c].handler,
                  replayed |-> Len(calls[c].replayIn)]
     IN IF \E i \in 1..Len(pre) : checkPreconditionThrows(pre[i])
        THEN /\ calls' = [calls EXCEPT ![c] =
                            [Failed(c, "PreconditionFailed") EXCEPT !.publishCalls = Append(@, call)]]
             /\ UNCHANGED events
        ELSE /\ calls' = [calls EXCEPT ![c] =
                            [@ EXCEPT !.pc = "done", !.publishCalls = Append(@, call)]]
             /\ events' = events \o NewRawEvents(batch)

ExternalPublish(seed) ==
  /\ Len(events) + Pending < MaxEvents
  /\ events' = events \o NewRawEvents(<<seed>>)
  /\ UNCHANGED <<cache, calls, sent, fullReads, procVars, chainVars, unitVars>>

----------------------------------------------------------------------------
(* Partitioning *)

PartitionCount == 2

\* A 32-bit integer is held as two 16-bit halves <<high, low>> of its
\* two's-complement bit pattern, so that no intermediate value leaves the
\* range of the model checker's integers.
Half == 65536

RECURSIVE RollingHash(_, _)
RollingHash(hash, chars) ==
  IF chars = <<>> THEN hash
  ELSE LET low == 31 * hash[2] + Head(chars)
       IN RollingHash(<< (31 * hash[1] + (low \div Half)) % Half, low % Half >>, Tail(chars))

\* the signed value of a bit pattern
ToInt32(hash) ==
  IF hash[1] >= 32768 THEN (hash[1] - Half) * Half + hash[2] ELSE hash[1] * Half + hash[2]

MinInt32 == (0 - 2147483647) - 1

AbsModSigned(h, partitionCount) ==
  IF h = MinInt32 THEN 0 - (((2147483647 % partitionCount) + 1) % partitionCount)
  ELSE IF h < 0 THEN 0 - ((0 - h) % partitionCount)
  ELSE h % partitionCount

\* Math.abs(hash) % partitionCount; Math.abs(-2^31) is 2^31
AbsMod(h, partitionCount) ==
  IF h = MinInt32 THEN ((2147483647 % partitionCount) + 1) % partitionCount
  ELSE (IF h < 0 THEN 0 - h ELSE h) % partitionCount

\* DefaultPartitionKeyResolver(partitionCount).resolve(sequenceId)
resolve(partitionCount, sequenceId) ==
  AbsMod(ToInt32(RollingHash(<<0, 0>>, sequenceId)), partitionCount)

\* sequence ids the resolver is called with: every string of up to MaxKeyLen
\* characters of "/t1", a string whose hash wraps to a negative value and one
\* whose hash is -2^31
RECURSIVE StringsUpTo(_)
StringsUpTo(n) ==
  IF n = 0 THEN {<<>>}
  ELSE StringsUpTo(n - 1) \cup
       {Append(str, c) : str \in {x \in StringsUpTo(n - 1) : Len(x) = n - 1}, c \in {47, 116, 49}}

\* new DefaultPartitionKeyResolver(partitionCount), before any resolve call
NewPartitioner(partitionCount, sequenceId) ==
  [partitionCount |-> partitionCount, sequenceId |-> sequenceId, results |-> <<>>]

\* a call of resolve(sequenceId) on the resolver
Resolve ==
  /\ Len(partitioner.results) < MaxResolves
  /\ partitioner' = [partitioner EXCEPT !.results =
                        Append(@, resolve(partitioner.partitionCount, partitioner.sequenceId))]
  /\ UNCHANGED <<routerVars, procVars, chainVars, taskResult, rebuilder, propagation, lru, others, streamed>>

\* EventHandlingProcessor.resolveSequenceId: [threw, id]; converted is the
\* deserialized payload, or 0 for the null run() passes
resolveSequenceId(kind, rawEvent, converted) ==
  IF kind = "raw1" THEN [threw |-> FALSE, id |-> rawEvent.subject]
  ELSE IF kind = "tolerant3"
       THEN [threw |-> FALSE, id |-> IF converted = 7 THEN SubjTD ELSE rawEvent.subject]
  ELSE [threw |-> TRUE, id |-> <<>>]

----------------------------------------------------------------------------
(* Event handling processor *)

retryDelay == 1000
maxRetries == 3

ProcSubject == SubjT          \* config.subject, with config.recursive = true
ProcPartitionShared == PartitionCount - 1

ProcPartition == proc.partition            \* config.partition

\* eventHandlers of the processor's group, in registration order; the first
\* handler of Renamed throws on every invocation
EventHandlers ==
  << [eventClass |-> "Created", throws |-> FALSE],
     [eventClass |-> "Renamed", throws |-> TRUE],
     [eventClass |-> "Renamed", throws |-> FALSE] >>

HandlersOf(eventName) ==
  SelectSeq([i \in 1..Len(EventHandlers) |-> [EventHandlers[i] EXCEPT !.eventClass = <<@, i>>]],
            LAMBDA h : h.eventClass[1] = eventName)

\* the loop over the handlers of one upcast result: the indexes invoked, up
\* to and including the first that throws (the throw leaves the try block)
RECURSIVE InvokeHandlers(_)
InvokeHandlers(hs) ==
  IF hs = <<>> THEN <<>>
  ELSE IF Head(hs).throws THEN <<Head(hs).eventClass[2]>>
  ELSE <<Head(hs).eventClass[2]>> \o InvokeHandlers(Tail(hs))

DispatchOneUnchecked(kind, e) ==
  IF getClassThrows(e.type) THEN <<>>
  ELSE LET seq == resolveSequenceId(kind, e, deserialize(e.data).payload)
       IN IF seq.threw THEN <<>>
          ELSE InvokeHandlers(HandlersOf(e.type))

\* the body of the try block of processEvent for one upcast result: the
\* handler indexes invoked
DispatchOne(kind, e) ==
  IF getClassThrows(e.type) THEN <<>>
  ELSE LET seq == resolveSequenceId(kind, e, deserialize(e.data).payload)
       IN IF seq.threw THEN <<>>
          ELSE IF resolve(PartitionCount, seq.id) # ProcPartition THEN <<>>
          ELSE InvokeHandlers(HandlersOf(e.type))

\* the loop of processEvent over the upcast results
RECURSIVE Dispatch(_, _)
Dispatch(kind, ups) ==
  IF ups = <<>> THEN <<>> ELSE DispatchOne(kind, Head(ups)) \o Dispatch(kind, Tail(ups))

proceedForGroup(tracker, partition, eventId) ==
  [k \in DOMAIN tracker |-> IF k < PartitionCount THEN eventId ELSE tracker[k]]

\* InMemoryProgressTracker.proceed with the execution the processor passes
proceed(tracker, partition, eventId) == [tracker EXCEPT ![partition] = eventId]

ProcInit(kind) ==
  [pc |-> "idle", running |-> FALSE, stopRequested |-> FALSE, resolver |-> kind,
   partition |-> 1, lower |-> NoEventId, n |-> 0, idx |-> 0, attempts |-> 0,
   restarted |-> FALSE]

ProcStreamInclusive == streamEvents(ProcSubject, proc.lower, TRUE, TRUE, proc.n)

\* the stream the processor iterates, and the raw event it is at
ProcStream == streamEvents(ProcSubject, proc.lower, FALSE, TRUE, proc.n)
Current == ProcStream[proc.idx]

Committed(id) == [hist EXCEPT !.commits[id] = @ + 1]

StartAgain ==
  /\ proc' = [proc EXCEPT !.pc = "loop", !.running = TRUE, !.stopRequested = FALSE]
  /\ UNCHANGED <<routerVars, chainVars, unitVars, progress, hist>>

\* start(): returns at once when already running, else the loop is entered;
\* proc.restarted records that start() was called after the last stop()
Start ==
  /\ proc' = IF proc.running
             THEN [proc EXCEPT !.restarted = @ \/ proc.stopRequested]
             ELSE [proc EXCEPT !.pc = "loop", !.running = TRUE, !.stopRequested = FALSE,
                               !.restarted = @ \/ proc.stopRequested]
  /\ UNCHANGED <<routerVars, chainVars, unitVars, progress, hist>>

\* stop()
Stop ==
  /\ proc.running
  /\ ~proc.stopRequested
  /\ proc' = [proc EXCEPT !.stopRequested = TRUE, !.restarted = FALSE]
  /\ UNCHANGED <<routerVars, chainVars, unitVars, progress, hist>>

LoopTopIgnoringStop ==
  /\ proc.pc = "loop"
  /\ proc' = [proc EXCEPT !.pc = "observe", !.lower = progress[ProcPartition],
                          !.n = Len(events), !.idx = 0]
  /\ UNCHANGED <<routerVars, chainVars, unitVars, progress, hist>>

LoopTopFromStart ==
  /\ proc.pc = "loop"
  /\ proc' = IF proc.stopRequested
             THEN [proc EXCEPT !.pc = "idle", !.running = FALSE]
             ELSE [proc EXCEPT !.pc = "observe", !.lower = NoEventId,
                               !.n = Len(events), !.idx = 0]
  /\ UNCHANGED <<routerVars, chainVars, unitVars, progress, hist>>

\* the head of the while loop of run(): leave when stop was requested, else
\* read the progress and open the observation stream after it
LoopTop ==
  /\ proc.pc = "loop"
  /\ proc' = IF proc.stopRequested
             THEN [proc EXCEPT !.pc = "idle", !.running = FALSE]
             ELSE [proc EXCEPT !.pc = "observe", !.lower = progress[ProcPartition],
                               !.n = Len(events), !.idx = 0]
  /\ UNCHANGED <<routerVars, chainVars, unitVars, progress, hist>>

\* the stream has ended: InMemoryAdapter.observeEvents returns after the
\* historical events, and the while loop comes round
StreamEnds ==
  /\ proc.pc = "observe"
  /\ proc.idx = Len(ProcStream)
  /\ proc' = [proc EXCEPT !.pc = "loop"]
  /\ UNCHANGED <<routerVars, chainVars, unitVars, progress, hist>>

\* the stream throws (an adapter that lost its connection): the catch block
\* of run() sleeps
StreamFails ==
  /\ proc.pc = "observe"
  /\ proc' = [proc EXCEPT !.pc = "sleepError"]
  /\ hist' = [hist EXCEPT !.escapedAt = progress[ProcPartition]]
  /\ UNCHANGED <<routerVars, chainVars, unitVars, progress>>

NextEventIgnoringStop ==
  /\ proc.pc = "observe"
  /\ proc.idx < Len(ProcStream)
  /\ UNCHANGED <<routerVars, chainVars, unitVars>>
  /\ LET rawEvent == ProcStream[proc.idx + 1]
         seq == resolveSequenceId(proc.resolver, rawEvent, 0)
     IN IF seq.threw
        THEN /\ proc' = [proc EXCEPT !.pc = "sleepError", !.idx = @ + 1]
             /\ hist' = [hist EXCEPT !.taken[rawEvent.id] = TRUE,
                                     !.escapedAt = progress[ProcPartition]]
             /\ UNCHANGED progress
        ELSE IF resolve(PartitionCount, seq.id) # ProcPartition
        THEN /\ proc' = [proc EXCEPT !.idx = @ + 1]
             /\ progress' = proceed(progress, ProcPartition, rawEvent.id)
             /\ hist' = [Committed(rawEvent.id) EXCEPT !.taken[rawEvent.id] = TRUE]
        ELSE /\ proc' = [proc EXCEPT !.pc = "attempt", !.idx = @ + 1, !.attempts = 0]
             /\ hist' = [hist EXCEPT !.taken[rawEvent.id] = TRUE]
             /\ UNCHANGED progress

NextEventSkippingSilently ==
  /\ proc.pc = "observe"
  /\ proc.idx < Len(ProcStream)
  /\ UNCHANGED <<routerVars, chainVars, unitVars>>
  /\ LET rawEvent == ProcStream[proc.idx + 1]
         seq == resolveSequenceId(proc.resolver, rawEvent, 0)
     IN IF proc.stopRequested
        THEN /\ proc' = [proc EXCEPT !.pc = "loop", !.idx = @ + 1]
             /\ UNCHANGED <<progress, hist>>
        ELSE IF seq.threw
        THEN /\ proc' = [proc EXCEPT !.pc = "sleepError", !.idx = @ + 1]
             /\ hist' = [hist EXCEPT !.taken[rawEvent.id] = TRUE,
                                     !.escapedAt = progress[ProcPartition]]
             /\ UNCHANGED progress
        ELSE IF resolve(PartitionCount, seq.id) # ProcPartition
        THEN /\ proc' = [proc EXCEPT !.idx = @ + 1]
             /\ UNCHANGED progress
             /\ hist' = [hist EXCEPT !.taken[rawEvent.id] = TRUE]
        ELSE /\ proc' = [proc EXCEPT !.pc = "attempt", !.idx = @ + 1, !.attempts = 0]
             /\ hist' = [hist EXCEPT !.taken[rawEvent.id] = TRUE]
             /\ UNCHANGED progress

\* the stream delivers the next raw event: the stop check, the raw-level
\* partition check (skip with a progress commit), else processEventWithRetry
\* is entered
NextEvent ==
  /\ proc.pc = "observe"
  /\ proc.idx < Len(ProcStream)
  /\ UNCHANGED <<routerVars, chainVars, unitVars>>
  /\ LET rawEvent == ProcStream[proc.idx + 1]
         seq == resolveSequenceId(proc.resolver, rawEvent, 0)
     IN IF proc.stopRequested
        THEN /\ proc' = [proc EXCEPT !.pc = "loop", !.idx = @ + 1]
             /\ UNCHANGED <<progress, hist>>
        ELSE IF seq.threw
        THEN /\ proc' = [proc EXCEPT !.pc = "sleepError", !.idx = @ + 1]
             /\ hist' = [hist EXCEPT !.taken[rawEvent.id] = TRUE,
                                     !.escapedAt = progress[ProcPartition]]
             /\ UNCHANGED progress
        ELSE IF resolve(PartitionCount, seq.id) # ProcPartition
        THEN /\ proc' = [proc EXCEPT !.idx = @ + 1]
             /\ progress' = proceed(progress, ProcPartition, rawEvent.id)
             /\ hist' = [Committed(rawEvent.id) EXCEPT !.taken[rawEvent.id] = TRUE]
        ELSE /\ proc' = [proc EXCEPT !.pc = "attempt", !.idx = @ + 1, !.attempts = 0]
             /\ hist' = [hist EXCEPT !.taken[rawEvent.id] = TRUE]
             /\ UNCHANGED progress

\* what processEvent does with the handler outcomes of one attempt: a
\* handler's throw is caught inside processEvent, so the attempt goes on to
\* the progress commit
AttemptOutcome(invoked) == "commit"

AttemptSleepingAfterLast ==
  /\ proc.pc = "attempt"
  /\ UNCHANGED <<routerVars, chainVars, unitVars, progress>>
  /\ \E rawEvent \in {Current} :
     \E up \in {upcast(rawEvent)} :
     \E invoked \in {Dispatch(proc.resolver, up.events)} :
     LET tried == [hist EXCEPT !.attempts[rawEvent.id] = @ + 1]
     IN IF up.threw \/ AttemptOutcome(invoked) = "throw"
        THEN /\ hist' = [tried EXCEPT !.invoked[rawEvent.id] = @ \o invoked,
                                      !.delays[rawEvent.id] =
                                         IF proc.attempts + 1 <= maxRetries
                                         THEN Append(@, retryDelay * 2 ^ proc.attempts)
                                         ELSE @]
             /\ proc' = [proc EXCEPT !.attempts = @ + 1,
                                     !.pc = IF proc.attempts + 1 <= maxRetries
                                            THEN "backoff" ELSE "exhausted"]
        ELSE /\ hist' = [tried EXCEPT !.invoked[rawEvent.id] = @ \o invoked]
             /\ proc' = [proc EXCEPT !.pc = "commit"]

\* one processEvent call from the retry loop, up to its progress commit:
\* upcast, then the dispatch of every upcast result
Attempt ==
  /\ proc.pc = "attempt"
  /\ UNCHANGED <<routerVars, chainVars, unitVars, progress>>
  /\ \E rawEvent \in {Current} :
     \E up \in {upcast(rawEvent)} :
     \E invoked \in {Dispatch(proc.resolver, up.events)} :
     LET tried == [hist EXCEPT !.attempts[rawEvent.id] = @ + 1]
     IN IF up.threw \/ AttemptOutcome(invoked) = "throw"
        THEN /\ hist' = [tried EXCEPT !.invoked[rawEvent.id] = @ \o invoked,
                                      !.delays[rawEvent.id] =
                                         IF proc.attempts + 1 < maxRetries
                                         THEN Append(@, retryDelay * 2 ^ proc.attempts)
                                         ELSE @]
             /\ proc' = [proc EXCEPT !.attempts = @ + 1,
                                     !.pc = IF proc.attempts + 1 < maxRetries
                                            THEN "backoff" ELSE "exhausted"]
        ELSE /\ hist' = [tried EXCEPT !.invoked[rawEvent.id] = @ \o invoked]
             /\ proc' = [proc EXCEPT !.pc = "commit"]

\* the sleep between two attempts is over
Backoff ==
  /\ proc.pc = "backoff"
  /\ proc' = [proc EXCEPT !.pc = "attempt"]
  /\ UNCHANGED <<routerVars, chainVars, unitVars, progress, hist>>

\* the progress commit that ends processEvent, or the one processEventWithRetry
\* makes after the last failed attempt
Commit ==
  /\ proc.pc \in {"commit", "exhausted"}
  /\ progress' = proceed(progress, ProcPartition, Current.id)
  /\ hist' = Committed(Current.id)
  /\ proc' = [proc EXCEPT !.pc = "observe", !.attempts = 0]
  /\ UNCHANGED <<routerVars, chainVars, unitVars>>

\* the sleep of the catch block of run() is over
SleepError ==
  /\ proc.pc = "sleepError"
  /\ proc' = [proc EXCEPT !.pc = "loop"]
  /\ UNCHANGED <<routerVars, chainVars, unitVars, progress, hist>>

\* events published to the store the processor observes
ProcSeeds ==
  { [type |-> "Created",  subject |-> SubjT,  data |-> [payload |-> 1]],
    [type |-> "Renamed",  subject |-> SubjT,  data |-> [payload |-> 2]],
    [type |-> "Created",  subject |-> SubjTD, data |-> [payload |-> 3]],
    [type |-> "LegacyV1", subject |-> SubjT,  data |-> [payload |-> 4]],
    [type |-> "Corrupt",  subject |-> SubjT,  data |-> [payload |-> 5]],
    [type |-> "Foreign",  subject |-> SubjT,  data |-> [payload |-> 9]],
    [type |-> "Created",  subject |-> SubjTC, data |-> [payload |-> 7]] }

Published(seed) ==
  /\ Len(events) < MaxEvents
  /\ events' = events \o NewRawEvents(<<seed>>)
  /\ UNCHANGED <<cache, calls, sent, fullReads, procVars, chainVars, unitVars>>

NoHistory ==
  [taken     |-> [i \in 1..MaxEvents |-> FALSE],
   attempts  |-> [i \in 1..MaxEvents |-> 0],
   invoked   |-> [i \in 1..MaxEvents |-> <<>>],
   delays    |-> [i \in 1..MaxEvents |-> <<>>],
   commits   |-> [i \in 1..MaxEvents |-> 0],
   escapedAt |-> 0 - 1]

\* InMemoryProgressTracker.progress, keyed group:partition: the rows 0 to
\* PartitionCount - 1 are those of the processors' group, the rows after
\* them those of another group on the same tracker
NoProgress == [k \in 0..(2 * PartitionCount - 1) |-> NoEventId]

\* the event loop runs a continuation of the processor of partition p: the
\* processor that ran until now stays suspended at its await
Resume(p) ==
  /\ p \in DOMAIN others
  /\ proc' = others[p].proc
  /\ hist' = others[p].hist
  /\ others' = [q \in ((DOMAIN others) \ {p}) \cup {proc.partition} |->
                  IF q = proc.partition THEN [proc |-> proc, hist |-> hist] ELSE others[q]]
  /\ UNCHANGED <<routerVars, chainVars, partitioner, taskResult, rebuilder, propagation,
                 lru, progress, streamed>>

----------------------------------------------------------------------------
(* Task example: TaskHandlers behind send, one command at a time *)

NullAssignee == "null"
Truthy(assignee) == assignee \notin {"", NullAssignee}

NullTask == [assignee |-> NullAssignee, status |-> "null"]

\* the state-rebuilding handlers onTaskCreated, onTaskAssigned, onTaskStarted
\* and onTaskCompleted
onTaskEvent(task, event) ==
  IF event.type = "TaskCreated" THEN [assignee |-> NullAssignee, status |-> "TODO"]
  ELSE IF event.type = "TaskAssigned" THEN [task EXCEPT !.assignee = event.data.payload]
  ELSE IF event.type = "TaskStarted" THEN [task EXCEPT !.status = "IN_PROGRESS"]
  ELSE [task EXCEPT !.status = "COMPLETED"]

\* the task rebuilt from the first n events of the store
RECURSIVE TaskAfter(_)
TaskAfter(n) == IF n = 0 THEN NullTask ELSE onTaskEvent(TaskAfter(n - 1), events[n])

\* handleCreate, handleAssign, handleStart, handleComplete: the error thrown
\* ("" when none) and the events passed to publisher.publish
TaskEvent(type, payload) == [type |-> type, subject |-> <<47, 116, 97, 115, 107, 47, 49>>, data |-> [payload |-> payload]]

TaskHandler(task, command) ==
  IF command.name = "Create"
  THEN [error |-> "", published |-> <<TaskEvent("TaskCreated", "")>>]
  ELSE IF command.name = "Assign"
  THEN IF task.status = "COMPLETED"
       THEN [error |-> "is already completed and cannot be reassigned", published |-> <<>>]
       ELSE [error |-> "", published |-> <<TaskEvent("TaskAssigned", command.assignee)>>]
  ELSE IF command.name = "Start"
  THEN IF task.status = "COMPLETED"
       THEN [error |-> "is already completed", published |-> <<>>]
       ELSE IF task.status = "IN_PROGRESS"
       THEN [error |-> "is already in progress", published |-> <<>>]
       ELSE IF ~Truthy(task.assignee)
       THEN [error |-> "must be assigned before it can be started", published |-> <<>>]
       ELSE [error |-> "", published |-> <<TaskEvent("TaskStarted", "")>>]
  ELSE IF task.status = "COMPLETED"
       THEN [error |-> "is already completed", published |-> <<>>]
       ELSE IF task.status = "TODO"
       THEN [error |-> "must be started before it can be completed", published |-> <<>>]
       ELSE [error |-> "", published |-> <<TaskEvent("TaskCompleted", "")>>]

NoTaskResult ==
  [command |-> [name |-> "", condition |-> "", assignee |-> NullAssignee],
   task |-> NullTask, error |-> "", published |-> 0]

\* send of one task command, awaited: rebuild, subject condition, handler,
\* publishEvents
SendTask(command) ==
  /\ Len(events) < MaxTaskEvents
  /\ LET task == TaskAfter(Len(events))
         lastEventId == IF events = <<>> THEN NoEventId ELSE events[Len(events)].id
         violated == \/ command.condition = "NEW" /\ lastEventId # NoEventId
                     \/ command.condition = "EXISTS" /\ lastEventId = NoEventId
         handled == TaskHandler(task, command)
     IN IF violated
        THEN /\ taskResult' = [command |-> command, task |-> task,
                               error |-> "subject condition", published |-> 0]
             /\ UNCHANGED events
        ELSE /\ taskResult' = [command |-> command, task |-> task, error |-> handled.error,
                               published |-> Len(handled.published)]
             /\ events' = events \o NewRawEvents(handled.published)
  /\ UNCHANGED <<cache, calls, sent, fullReads, procVars, chainVars, partitioner, rebuilder, propagation, lru, others, streamed>>

----------------------------------------------------------------------------
(* Specification of the command side *)

Init ==
  /\ events = <<>>
  /\ cache = <<>>
  /\ calls = [c \in Callers |-> IdleCall]
  /\ sent = 0
  /\ fullReads = [k \in CacheKeys |-> 0]
  /\ proc = ProcInit("raw1")
  /\ progress = NoProgress
  /\ hist = NoHistory
  /\ upcasters = Upcasters
  /\ lastUpcast = NotUpcast
  /\ partitioner = NewPartitioner(PartitionCount, <<>>)
  /\ taskResult = NoTaskResult
  /\ rebuilder = NewRebuilder(StateRebuildingHandlers)
  /\ propagation = NoPropagation
  /\ lru = NewCache(1)
  /\ others = <<>>
  /\ streamed = NoStream

Next ==
  \/ \E c \in Callers, name \in CommandNames : Send(c, name)
  \/ \E c \in Callers : MergeComplete(c)
  \/ \E c \in Callers : HandlerStep(c)
  \/ \E c \in Callers : PublishEvents(c)
  \/ \E seed \in { [type |-> "Foreign", subject |-> SubjT, data |-> [payload |-> 9]], [type |-> "Created", subject |-> SubjTC, data |-> [payload |-> 3]], [type |-> "LegacyV1", subject |-> SubjT, data |-> [payload |-> 4]], [type |-> "Corrupt", subject |-> SubjTC, data |-> [payload |-> 5]] } : ExternalPublish(seed)

Spec == Init /\ [][Next]_vars

----------------------------------------------------------------------------
(* Specification of the event handling side *)

InitProc ==
  /\ events = <<>>
  /\ cache = <<>>
  /\ calls = [c \in Callers |-> IdleCall]
  /\ sent = 0
  /\ fullReads = [k \in CacheKeys |-> 0]
  /\ \E kind \in {"raw1", "tolerant3", "instance"} : proc = ProcInit(kind)
  /\ progress = NoProgress
  /\ hist = NoHistory
  /\ upcasters = Upcasters
  /\ lastUpcast = NotUpcast
  /\ partitioner = NewPartitioner(PartitionCount, <<>>)
  /\ taskResult = NoTaskResult
  /\ rebuilder = NewRebuilder(StateRebuildingHandlers)
  /\ propagation = NoPropagation
  /\ lru = NewCache(1)
  /\ others = <<>>
  /\ streamed = NoStream

ProcStep ==
  \/ Start
  \/ LoopTop
  \/ StreamEnds
  \/ NextEvent
  \/ Attempt
  \/ Backoff
  \/ Commit
  \/ SleepError

NextProc ==
  \/ ProcStep
  \/ Stop
  \/ StreamFails
  \/ \E seed \in ProcSeeds : Published(seed)

SpecProc == InitProc /\ [][NextProc]_vars

NextProcLive ==
  \/ ProcStep
  \/ \E seed \in {seed \in ProcSeeds : seed.type \in {"Renamed", "Corrupt"} \/ seed.subject = SubjTD} : Published(seed)

SpecProcLive == InitProc /\ [][NextProcLive]_vars /\ WF_vars(ProcStep)

\* A processor that may be stopped, on an adapter that may fail: the event
\* loop still runs every continuation of the processor and every timer
\* fires.
NextProcStop ==
  \/ NextProcLive
  \/ Stop
  \/ StreamFails

SpecProcStop == InitProc /\ [][NextProcStop]_vars /\ WF_vars(ProcStep)

----------------------------------------------------------------------------
(* Specification of a group of processors *)

\* one processor per partition of the group, all with the resolver that
\* takes the raw event, on one store and one progress tracker
InitGroup ==
  /\ events = <<>>
  /\ cache = <<>>
  /\ calls = [c \in Callers |-> IdleCall]
  /\ sent = 0
  /\ fullReads = [k \in CacheKeys |-> 0]
  /\ proc = [ProcInit("raw1") EXCEPT !.partition = 0]
  /\ progress = NoProgress
  /\ hist = NoHistory
  /\ upcasters = Upcasters
  /\ lastUpcast = NotUpcast
  /\ partitioner = NewPartitioner(PartitionCount, <<>>)
  /\ taskResult = NoTaskResult
  /\ rebuilder = NewRebuilder(StateRebuildingHandlers)
  /\ propagation = NoPropagation
  /\ lru = NewCache(1)
  /\ others = [p \in 1..(PartitionCount - 1) |->
                 [proc |-> [ProcInit("raw1") EXCEPT !.partition = p], hist |-> NoHistory]]
  /\ streamed = NoStream

\* the steps of the processor that runs (the stream does not fail and the
\* sequence resolver does not throw, so run()'s catch block is not entered)
NextGroup ==
  \/ Start
  \/ LoopTop
  \/ StreamEnds
  \/ NextEvent
  \/ Attempt
  \/ Backoff
  \/ Commit
  \/ \E p \in 0..(PartitionCount - 1) : Resume(p)
  \/ \E seed \in ProcSeeds : Published(seed)

SpecGroup == InitGroup /\ [][NextGroup]_vars

----------------------------------------------------------------------------
(* Specification of the upcaster chain *)

InitUpcast ==
  /\ events = <<>>
  /\ cache = <<>>
  /\ calls = [c \in Callers |-> IdleCall]
  /\ sent = 0
  /\ fullReads = [k \in CacheKeys |-> 0]
  /\ proc = ProcInit("raw1")
  /\ progress = NoProgress
  /\ hist = NoHistory
  /\ upcasters = <<>>
  /\ lastUpcast = NotUpcast
  /\ partitioner = NewPartitioner(PartitionCount, <<>>)
  /\ taskResult = NoTaskResult
  /\ rebuilder = NewRebuilder(StateRebuildingHandlers)
  /\ propagation = NoPropagation
  /\ lru = NewCache(1)
  /\ others = <<>>
  /\ streamed = NoStream

NextUpcast ==
  \/ \E upcaster \in ({Upcasters[i] : i \in 1..Len(Upcasters)} \cup {V2toV3, SplitV1}) : add(upcaster)
  \/ \E event \in { [id |-> 1, type |-> t, source |-> "cqrskit", subject |-> SubjT, time |-> 1700, data |-> [payload |-> 4], metadata |-> [userId |-> 7]] : t \in {"LegacyV1", "LegacyV2", "Obsolete", "Corrupt", "Created"} } : UpcastCall(event)

SpecUpcast == InitUpcast /\ [][NextUpcast]_vars

----------------------------------------------------------------------------
(* Specification of the partition key resolver *)

InitPartition ==
  /\ events = <<>>
  /\ cache = <<>>
  /\ calls = [c \in Callers |-> IdleCall]
  /\ sent = 0
  /\ fullReads = [k \in CacheKeys |-> 0]
  /\ proc = ProcInit("raw1")
  /\ progress = NoProgress
  /\ hist = NoHistory
  /\ upcasters = <<>>
  /\ lastUpcast = NotUpcast
  /\ \E partitionCount \in 1..10,
       sequenceId \in StringsUpTo(MaxKeyLen) \cup
                    {SubjT, SubjTC, SubjTD, <<2400, 47, 116, 47, 49>>, <<2325, 9, 30, 12, 2>>} :
       partitioner = NewPartitioner(partitionCount, sequenceId)
  /\ taskResult = NoTaskResult
  /\ rebuilder = NewRebuilder(StateRebuildingHandlers)
  /\ propagation = NoPropagation
  /\ lru = NewCache(1)
  /\ others = <<>>
  /\ streamed = NoStream

NextPartition == Resolve

SpecPartition == InitPartition /\ [][NextPartition]_vars

----------------------------------------------------------------------------
(* Specification of the task example *)

NextTask == \E command \in ({[name |-> "Create", condition |-> "NEW", assignee |-> NullAssignee], [name |-> "Start", condition |-> "EXISTS", assignee |-> NullAssignee], [name |-> "Complete", condition |-> "EXISTS", assignee |-> NullAssignee]} \cup {[name |-> "Assign", condition |-> "EXISTS", assignee |-> a] : a \in {"", "Alice", "Bob"}}) : SendTask(command)

SpecTask == Init /\ [][NextTask]_vars

----------------------------------------------------------------------------
(* Specification of applyStateRebuilding *)

InitRebuild ==
  /\ events = <<>>
  /\ cache = <<>>
  /\ calls = [c \in Callers |-> IdleCall]
  /\ sent = 0
  /\ fullReads = [k \in CacheKeys |-> 0]
  /\ proc = ProcInit("raw1")
  /\ progress = NoProgress
  /\ hist = NoHistory
  /\ upcasters = Upcasters
  /\ lastUpcast = NotUpcast
  /\ partitioner = NewPartitioner(PartitionCount, <<>>)
  /\ taskResult = NoTaskResult
  /\ \E defs \in HandlerLists(MaxHandlers) : rebuilder = NewRebuilder(defs)
  /\ propagation = NoPropagation
  /\ lru = NewCache(1)
  /\ others = <<>>
  /\ streamed = NoStream

NextRebuild ==
  \E instance \in {NoInstance, <<1>>}, event \in {<<"Created", 1>>, <<"Renamed", 2>>} :
    Apply(instance, event[1], event[2])

SpecRebuild == InitRebuild /\ [][NextRebuild]_vars

----------------------------------------------------------------------------
(* Specification of rebuildState over a given store *)

\* the stores a router may be started on: up to MaxEvents events of the
\* aggregate's types, ids and payloads by position, on the commands'
\* subject "/t", a descendant of it and "/t0", which shares its prefix
RECURSIVE Stores(_)
Stores(n) ==
  IF n = 0 THEN {<<>>}
  ELSE Stores(n - 1) \cup
       {Append(es, [id |-> n, type |-> type, subject |-> subject,
                    data |-> [payload |-> 10 * n]]) :
          es \in {x \in Stores(n - 1) : Len(x) = n - 1},
          type \in RegisteredTypes, subject \in {SubjT, SubjTC, SubjT \o <<48>>}}

InitSourcing ==
  /\ events \in Stores(MaxEvents)
  /\ cache = <<>>
  /\ calls = [c \in Callers |-> IdleCall]
  /\ sent = 0
  /\ fullReads = [k \in CacheKeys |-> 0]
  /\ proc = ProcInit("raw1")
  /\ progress = NoProgress
  /\ hist = NoHistory
  /\ upcasters = Upcasters
  /\ lastUpcast = NotUpcast
  /\ partitioner = NewPartitioner(PartitionCount, <<>>)
  /\ taskResult = NoTaskResult
  /\ rebuilder = NewRebuilder(StateRebuildingHandlers)
  /\ propagation = NoPropagation
  /\ lru = NewCache(1)
  /\ others = <<>>
  /\ streamed = NoStream

\* sends up to the invocation of the command handler
NextSourcing ==
  \/ \E c \in Callers, name \in CommandNames : Send(c, name)
  \/ \E c \in Callers : MergeComplete(c)

SpecSourcing == InitSourcing /\ [][NextSourcing]_vars

----------------------------------------------------------------------------
(* Specification of metadata propagation *)

\* a router with any propagation mode and any list of configured keys
InitMetadata ==
  /\ events = <<>>
  /\ cache = <<>>
  /\ calls = [c \in Callers |-> IdleCall]
  /\ sent = 0
  /\ fullReads = [k \in CacheKeys |-> 0]
  /\ proc = ProcInit("raw1")
  /\ progress = NoProgress
  /\ hist = NoHistory
  /\ upcasters = Upcasters
  /\ lastUpcast = NotUpcast
  /\ partitioner = NewPartitioner(PartitionCount, <<>>)
  /\ taskResult = NoTaskResult
  /\ rebuilder = NewRebuilder(StateRebuildingHandlers)
  /\ \E mode \in {"NONE", "SHALLOW", "DEEP"},
        keys \in SUBSET {"correlationId", "userId", "payload"} :
       propagation = [NoPropagation EXCEPT !.mode = mode, !.keys = keys]
  /\ lru = NewCache(1)
  /\ others = <<>>
  /\ streamed = NoStream

\* send(command, metadata) with a handler that publishes one event with
\* metadata of its own; command values are 1, event values are 2
NextMetadata ==
  \E commandKeys, eventKeys \in SUBSET {"correlationId", "userId", "payload"} :
    SerializeCall([k \in commandKeys |-> 1], [k \in eventKeys |-> 2])

SpecMetadata == InitMetadata /\ [][NextMetadata]_vars

----------------------------------------------------------------------------
(* Specification of InMemoryStateCache *)

InitCache ==
  /\ events = <<>>
  /\ cache = <<>>
  /\ calls = [c \in Callers |-> IdleCall]
  /\ sent = 0
  /\ fullReads = [k \in CacheKeys |-> 0]
  /\ proc = ProcInit("raw1")
  /\ progress = NoProgress
  /\ hist = NoHistory
  /\ upcasters = Upcasters
  /\ lastUpcast = NotUpcast
  /\ partitioner = NewPartitioner(PartitionCount, <<>>)
  /\ taskResult = NoTaskResult
  /\ rebuilder = NewRebuilder(StateRebuildingHandlers)
  /\ propagation = NoPropagation
  /\ \E capacity \in 1..MaxCapacity : lru = NewCache(capacity)
  /\ others = <<>>
  /\ streamed = NoStream

\* fetchAndMerge calls of concurrent sends, each suspended at its merger
NextCache ==
  \/ \E k \in DOMAIN lru.inflight : FetchBegin(k)
  \/ \E k \in DOMAIN lru.inflight : FetchEnd(k)

SpecCache == InitCache /\ [][NextCache]_vars

----------------------------------------------------------------------------
(* The adapter's streamEvents called directly, over every store of up to
   MaxEvents events *)

InitStream ==
  /\ events \in Stores(MaxEvents)
  /\ cache = <<>>
  /\ calls = [c \in Callers |-> IdleCall]
  /\ sent = 0
  /\ fullReads = [k \in CacheKeys |-> 0]
  /\ proc = ProcInit("raw1")
  /\ progress = NoProgress
  /\ hist = NoHistory
  /\ upcasters = Upcasters
  /\ lastUpcast = NotUpcast
  /\ partitioner = NewPartitioner(PartitionCount, <<>>)
  /\ taskResult = NoTaskResult
  /\ rebuilder = NewRebuilder(StateRebuildingHandlers)
  /\ propagation = NoPropagation
  /\ lru = NewCache(1)
  /\ others = <<>>
  /\ streamed = NoStream

NextStream ==
  \E subject \in {SubjT, SubjTC}, recursive \in BOOLEAN, i \in 1..Len(events) :
    StreamCall(subject, events[i].id, recursive)

SpecStream == InitStream /\ [][NextStream]_vars

----------------------------------------------------------------------------
(* Properties of the command side *)

SubjectHasEvent(subject, n) == \E i \in 1..n : events[i].subject = subject

\* C35: streamEvents called with lowerBound = id and includeLowerBound =
\* false yields exactly the events of the requested subject scope that come
\* after the event with that id in store order, for every id of a stored
\* event passed as lower bound.
C35_StreamsStrictlyAfterLowerBound ==
  streamed.called =>
    LET pos == CHOOSE i \in 1..Len(events) : events[i].id = streamed.lowerBound
    IN streamed.yielded =
         SelectSeq(SubSeq(events, pos + 1, Len(events)),
                   LAMBDA e : e.subject = streamed.subject
                              \/ (streamed.recursive
                                  /\ StartsWith(e.subject, streamed.subject \o Slash)))

\* C36: of two send calls of a command that declares SubjectCondition.NEW
\* for the same empty subject and whose handler publishes one event without
\* a precondition, at most one publishes: the subject never holds two
\* creation events published by the two calls.
C36_AtMostOneCreationPublished ==
  ~ /\ \A c \in Callers : calls[c].cmd = "Create" /\ calls[c].pc = "done"
    /\ Len(events) = 2
    /\ \A i \in 1..2 : events[i].type = "Created" /\ events[i].subject = SubjT

\* C38: when the merge function passed to fetchAndMerge fails, the call
\* rejects and the cache is as it was before the call: the value cached for
\* the key before the call is still present and unchanged, and no other key
\* has been evicted.
C38_FailedMergeLeavesCache ==
  [][\A c \in Callers :
       (calls[c].pc = "merging" /\ calls'[c].pc = "failed" /\ calls'[c].error = "MergeError") =>
         /\ calls[c].cached.present => CacheGet(cache', KeyOf(c)) = calls[c].cached
         /\ \A k \in CacheKeys : (k # KeyOf(c) /\ CacheHas(cache, k)) => CacheHas(cache', k)]_vars

\* C1: the rebuild merges of one cache key run one at a time: no two send
\* calls are inside fetchAndMerge for the same key at the same moment (one
\* having read the cache and opened its stream, the other not yet having
\* written its merged value back).
C1_MergesRunOneAtATime ==
  \A c, d \in Callers :
    (c # d /\ calls[c].pc = "merging" /\ calls[d].pc = "merging") => KeyOf(c) # KeyOf(d)

\* C2: while a cache entry lives, the events of its key are streamed from
\* the beginning at most once; every other send resumes from the cached
\* position.
C2_StreamReadFromBeginningOnce == \A k \in CacheKeys : fullReads[k] <= 1

\* C4: a command whose handler is invoked after a rebuild satisfied its
\* subject condition against the store as it was when the send began: NEW
\* means no event of its subject existed, EXISTS means one did.
C4_SubjectConditionEnforced ==
  \A c \in Callers :
    (calls[c].pc = "handling" /\ Def(c).sourcingMode # "NONE") =>
      /\ Def(c).condition = "NEW" => ~SubjectHasEvent(Def(c).subject, calls[c].snap)
      /\ Def(c).condition = "EXISTS" => SubjectHasEvent(Def(c).subject, calls[c].snap)

\* C7: the instance and event id a send hands to its command handler after
\* merging a cached checkpoint with the events streamed after it are those
\* of a rebuild of the same events from an empty cache (what a router with
\* NoStateRebuildingCache computes).
C7_CachedRebuildEqualsColdRebuild ==
  \A c \in Callers :
    (calls[c].pc = "handling" /\ Def(c).sourcingMode # "NONE") =>
      LET cold == NoCacheFetchAndMerge(Def(c).subject, Def(c).sourcingMode = "RECURSIVE", calls[c].snap)
      IN /\ calls[c].instance = cold.instance
         /\ calls[c].lastEventId = cold.eventId

\* a handler received an instance built from a checkpoint of two events and
\* at least one event streamed after the checkpoint
C7_Witness ==
  \E c \in Callers :
    /\ calls[c].pc = "handling"
    /\ calls[c].cached.present
    /\ Len(calls[c].cached.instance) >= 2
    /\ calls[c].lastEventId > calls[c].cached.eventId
    /\ Len(calls[c].instance) > Len(calls[c].cached.instance)

\* C8: every value in the state cache is the fold, from nothing, of the
\* events of its key's scope up to and including its eventId, and that
\* fold ends at exactly that eventId.
C8_CacheValueIsFoldUpToEventId ==
  \A i \in 1..Len(cache) :
    LET k == cache[i].key
        v == cache[i].value
        fold == NoCacheFetchAndMerge(k[1], k[2] = "RECURSIVE", v.eventId)
    IN /\ v.eventId <= Len(events)
       /\ fold.instance = v.instance
       /\ fold.eventId = v.eventId

\* the cache holds a value built from several events while the store holds
\* a later event of the same scope that the value does not reflect yet
C8_Witness ==
  \E i \in 1..Len(cache) :
    /\ Len(cache[i].value.instance) >= 2
    /\ cache[i].value.eventId < Len(events)
    /\ NoCacheFetchAndMerge(cache[i].key[1], cache[i].key[2] = "RECURSIVE", Len(events)).eventId
         > cache[i].value.eventId

\* C9: when a handler published two events in one send, the replay of the
\* second received the instance the replay of the first returned, and once
\* the send is done the cache holds, for the command's key, the instance
\* that reflects both events.
C9_CacheReflectsBothPublishedEvents ==
  \A c \in Callers :
    (calls[c].pc = "done" /\ Len(calls[c].capturedEvents) = 2) =>
      /\ calls[c].replayIn[2] =
           applyStateRebuilding(calls[c].replayIn[1], calls[c].capturedEvents[1].type,
                                calls[c].capturedEvents[1].payload).instance
      /\ CacheGet(cache, KeyOf(c)).present
      /\ CacheGet(cache, KeyOf(c)).instance = calls[c].updatedInstance

\* what a publishEvents call of send c must carry: one event per captured
\* event, in capture order, under the command's subject, and the
\* preconditions of all of them, in order; made after the handler returned
\* and after every captured event was replayed
CarriesAllCaptured(c, call) ==
  LET cap == calls[c].capturedEvents
  IN /\ Len(call.events) = Len(cap)
     /\ \A i \in 1..Len(cap) :
          /\ call.events[i].type = cap[i].type
          /\ call.events[i].subject = Def(c).subject
          /\ call.events[i].data["payload"] = cap[i].payload
     /\ Len(call.preconditions) = Len(Flatten([i \in 1..Len(cap) |-> cap[i].preconditions]))
     /\ \A i \in 1..Len(cap) :
          \A j \in 1..Len(cap[i].preconditions) :
            call.preconditions[Len(Flatten([h \in 1..(i - 1) |-> cap[h].preconditions])) + j]
              = cap[i].preconditions[j]
     /\ call.handler = "returned"
     /\ call.replayed = Len(cap)

C11_HandlerErrorPublishesNothing ==
  /\ [](\A c \in Callers :
          calls[c].handler = "threw" =>
            /\ calls[c].pc = "failed"
            /\ calls[c].error = "HandlerError"
            /\ calls[c].publishCalls = <<>>)
  /\ [][\A c \in Callers :
          (/\ calls[c].pc = "handling"
           /\ calls[c].hpos <= Len(Def(c).script)
           /\ Def(c).script[calls[c].hpos].op = "throw"
           /\ calls'[c] # calls[c]) =>
            /\ calls'[c].handler = "threw"
            /\ cache' = cache
            /\ events' = events]_vars

\* a handler raised after buffering an event, and the value its rebuild
\* wrote is in the cache
C11_Witness ==
  \E c \in Callers :
    /\ calls[c].handler = "threw"
    /\ calls[c].capturedEvents # <<>>
    /\ CacheHas(cache, KeyOf(c))

\* C12: a publishEvents call is all-or-nothing. When a precondition of the
\* batch fails the store is left exactly as it was and the send fails with
\* the precondition error; otherwise the store grows by exactly the batch,
\* appended after what it held, in batch order, with consecutive ids.
C12_PublishIsAllOrNothing ==
  [][\A c \in Callers :
       (calls[c].pc = "publish" /\ calls'[c] # calls[c]) =>
         LET cap == calls[c].capturedEvents
             n == Len(events)
         IN IF \E i \in 1..Len(cap) :
                 \E j \in 1..Len(cap[i].preconditions) : (/\ cap[i].preconditions[j].type = "isSubjectNew"
                                                         /\ SubjectHasEvent(cap[i].preconditions[j].subject, n))
            THEN /\ events' = events
                 /\ calls'[c].pc = "failed"
                 /\ calls'[c].error = "PreconditionFailed"
            ELSE /\ calls'[c].pc = "done"
                 /\ Len(events') = n + Len(cap)
                 /\ SubSeq(events', 1, n) = events
                 /\ \A i \in 1..Len(cap) :
                      /\ events'[n + i].id = n + i
                      /\ events'[n + i].type = cap[i].type
                      /\ events'[n + i].subject = Def(c).subject
                      /\ events'[n + i].data["payload"] = cap[i].payload]_vars

\* one send was rejected by the store on a precondition while the store
\* holds the event another send published
C12_Witness ==
  \E c, d \in Callers :
    /\ calls[c].pc = "failed"
    /\ calls[c].error = "PreconditionFailed"
    /\ Len(calls[c].publishCalls) = 1
    /\ calls[d].pc = "done"
    /\ Len(calls[d].publishCalls) = 1
    /\ events # <<>>

\* send c has come back from rebuildState
Rebuilt(c) ==
  /\ calls[c].cmd \in DOMAIN CommandHandlers
  /\ calls[c].pc \in {"handling", "publish", "done", "failed"}
  /\ calls[c].error # "MergeError"

\* C13: a send whose declared subject condition is violated by the rebuilt
\* replay position is rejected before its command handler is invoked: the
\* handler never ran, nothing was buffered and publishEvents was not called.
C13_ConditionCheckedBeforeHandler ==
  \A c \in Callers :
    (/\ Rebuilt(c)
     /\ \/ Def(c).condition = "NEW" /\ calls[c].lastEventId # NoEventId
        \/ Def(c).condition = "EXISTS" /\ calls[c].lastEventId = NoEventId) =>
      /\ calls[c].pc = "failed"
      /\ calls[c].error = "SubjectCondition"
      /\ calls[c].handler = "none"
      /\ calls[c].capturedEvents = <<>>
      /\ calls[c].publishCalls = <<>>

\* a NEW command was rejected on a subject that has a replay position, and
\* an EXISTS command on one that has none
C13_Witness ==
  \E c, d \in Callers :
    /\ Rebuilt(c) /\ Def(c).condition = "NEW" /\ calls[c].lastEventId # NoEventId
    /\ calls[c].error = "SubjectCondition"
    /\ Rebuilt(d) /\ Def(d).condition = "EXISTS" /\ calls[d].lastEventId = NoEventId
    /\ calls[d].error = "SubjectCondition"

\* C14: a send of a command no handler is registered for fails at once and
\* touches neither the cache nor the store: no cache read or delete, no
\* stream opened, nothing published.
C14_NoHandlerNoStoreAccess ==
  /\ [](\A c \in Callers :
          (calls[c].cmd \notin DOMAIN CommandHandlers /\ calls[c].cmd # "none") =>
            /\ calls[c].pc = "failed"
            /\ calls[c].error = "NoHandler"
            /\ calls[c].cached = NullCached
            /\ calls[c].snap = 0
            /\ calls[c].handler = "none"
            /\ calls[c].publishCalls = <<>>)
  /\ [][\A c \in Callers :
          (calls'[c] # calls[c] /\ calls'[c].cmd \notin DOMAIN CommandHandlers) =>
            /\ cache' = cache
            /\ events' = events
            /\ fullReads' = fullReads]_vars

\* a send without a registered handler failed while the cache held an
\* entry and the store an event
C14_Witness ==
  \E c \in Callers :
    /\ calls[c].error = "NoHandler"
    /\ cache # <<>>
    /\ events # <<>>

\* C24: the eventId stored in the cache for a key never moves to an earlier
\* stream position while the entry stays in the cache: a merge that began
\* earlier and ends later does not overwrite the result of a merge that
\* included newer events.
C24_CachedEventIdNeverMovesBack ==
  [][\A k \in CacheKeys :
       (CacheHas(cache, k) /\ CacheHas(cache', k)) =>
         CacheGet(cache', k).eventId >= CacheGet(cache, k).eventId]_vars

\* the stream the merger of send c reads: the scope of the command after
\* the cached position, as the store was when the stream was opened
MergeStream(c) ==
  streamEvents(Def(c).subject, StreamOptions(ResumeFrom(calls[c].cached)).lowerBound,
               StreamOptions(ResumeFrom(calls[c].cached)).includeLowerBound,
               Def(c).sourcingMode = "RECURSIVE", calls[c].snap)

\* a stored event no result of which has a type the resolver knows
Unresolvable(e) ==
  /\ ~upcast(e).threw
  /\ upcast(e).events # <<>>
  /\ \A i \in 1..Len(upcast(e).events) : getClassThrows(upcast(e).events[i].type)

\* the merger's result had the unresolvable events never been in the stream
FoldOfResolvable(c) ==
  FoldStream([threw    |-> FALSE,
              eventId  |-> ResumeFrom(calls[c].cached),
              instance |-> IF calls[c].cached.present THEN calls[c].cached.instance
                           ELSE NoInstance],
             SelectSeq(MergeStream(c), LAMBDA e : ~Unresolvable(e)))

\* C29: a stored event whose type cannot be resolved is skipped by the
\* rebuild without failing send: the rebuild ends with the instance and the
\* replay position it would have without that event in the stream, so the
\* event changed neither and every later event was still applied.
C29_UnresolvableEventSkipped ==
  [][\A c \in Callers :
       (/\ calls[c].pc = "merging"
        /\ calls'[c].pc # "merging"
        /\ \E i \in 1..Len(MergeStream(c)) : Unresolvable(MergeStream(c)[i])
        /\ \A i \in 1..Len(MergeStream(c)) : ~upcast(MergeStream(c)[i]).threw) =>
         /\ calls'[c].error # "MergeError"
         /\ calls'[c].instance = FoldOfResolvable(c).instance
         /\ calls'[c].lastEventId = FoldOfResolvable(c).eventId]_vars

\* a rebuild has skipped an unresolvable event and applied a later event of
\* the same stream
C29_Witness ==
  \E c \in Callers :
    /\ calls[c].pc = "handling"
    /\ calls[c].cmd \in DOMAIN CommandHandlers
    /\ Def(c).sourcingMode # "NONE"
    /\ \E i, j \in 1..Len(MergeStream(c)) :
         /\ i < j
         /\ Unresolvable(MergeStream(c)[i])
         /\ calls[c].lastEventId = MergeStream(c)[j].id
         /\ calls[c].instance # NoInstance

----------------------------------------------------------------------------
(* Properties of the event handling side *)

StreamIds == 1..MaxEvents

\* the raw event the processor is inside processEventWithRetry for
InFlight(i) ==
  /\ proc.pc \in {"attempt", "backoff", "commit", "exhausted"}
  /\ Current.id = i

\* retryDelay, retryDelay*2, ... between maxRetries attempts
BackoffDelays == [k \in 1..(maxRetries - 1) |-> retryDelay * 2 ^ (k - 1)]

\* C3: a raw event whose handler threw and whose progress is committed was
\* attempted exactly maxRetries times, with the backoff sleeps in between.
C3_PoisonEventAttemptedMaxRetriesTimes ==
  \A i \in StreamIds :
    (/\ hist.commits[i] > 0
     /\ \E j \in 1..Len(hist.invoked[i]) : EventHandlers[hist.invoked[i][j]].throws) =>
      /\ hist.attempts[i] = maxRetries
      /\ hist.delays[i] = BackoffDelays

\* C5: progress is committed at most once per raw event, with that event's
\* id, never while an attempt at the event is still to come, and exactly
\* once by the time the processor has left an event it took from the
\* stream, whatever its upcast results and handlers did.
C5_CommittedOncePerRawEvent ==
  \A i \in StreamIds :
    /\ hist.commits[i] <= 1
    /\ hist.commits[i] = 1 => ~InFlight(i)
    /\ (hist.taken[i] /\ ~InFlight(i)) => hist.commits[i] = 1

\* the raw event resolves, from the raw event alone, to a partition other
\* than the processor's
OtherPartition(e) ==
  LET seq == resolveSequenceId(proc.resolver, e, 0)
  IN ~seq.threw /\ resolve(PartitionCount, seq.id) # ProcPartition

\* C15: for a raw event of another partition the processor makes no
\* attempt (no upcast, no deserialization, no handler invocation) and has
\* committed progress with that event's id by the time it is past the
\* event.
C15_OtherPartitionSkippedButCommitted ==
  /\ [](\A i \in 1..Len(events) :
          (hist.taken[i] /\ OtherPartition(events[i])) =>
            /\ hist.attempts[i] = 0
            /\ hist.invoked[i] = <<>>
            /\ hist.commits[i] = 1)
  /\ [][\A i \in 1..Len(events) :
          (OtherPartition(events[i]) /\ ~hist.taken[i] /\ hist'.taken[i]) =>
            /\ progress'[ProcPartition] = i
            /\ proc'.pc = "observe"]_vars

\* the processor skipped an event of another partition and then attempted
\* a later event of its own
C15_Witness ==
  \E i, j \in 1..Len(events) :
    /\ i < j
    /\ hist.taken[i] /\ OtherPartition(events[i]) /\ hist.commits[i] = 1
    /\ hist.attempts[j] > 0

\* C16: the progress stored for the processor's partition never moves to
\* an earlier stream position: every change of it is to a later event id,
\* across restarts of the observation loop as well.
C16_ProgressNeverRewinds ==
  [][progress'[ProcPartition] # progress[ProcPartition] =>
       progress'[ProcPartition] > progress[ProcPartition]]_vars

\* progress reached the second event on a stream that was re-opened after
\* the first had been committed
C16_Witness ==
  /\ progress[ProcPartition] = 2
  /\ hist.commits[1] = 1
  /\ proc.lower = 1

\* C17: after an exception has escaped the observation loop the processor
\* sleeps, comes back to the head of the loop, re-reads the progress and
\* opens the stream strictly after it; no handler is invoked and no attempt
\* is made for a raw event at or before the committed progress, so an event
\* whose processing ended is never handled a second time.
C17_NoRedeliveryAtOrBeforeProgress ==
  /\ [](proc.pc \in {"observe", "attempt", "backoff", "commit", "exhausted"} =>
          \A k \in 1..Len(ProcStream) : ProcStream[k].id > proc.lower)
  /\ [][/\ proc.pc = "sleepError" => proc'.pc \in {"sleepError", "loop"}
        /\ (proc.pc = "loop" /\ proc'.pc = "observe") =>
              proc'.lower = progress[ProcPartition] /\ proc'.idx = 0
        /\ \A i \in StreamIds :
              i <= progress[ProcPartition] =>
                /\ hist'.invoked[i] = hist.invoked[i]
                /\ hist'.attempts[i] = hist.attempts[i]]_vars

\* the exception escaped when the first event had been handled and committed;
\* the stream was re-opened after it and the second event was handled
C17_Witness ==
  /\ hist.escapedAt = 1
  /\ proc.lower = 1
  /\ hist.invoked[1] # <<>>
  /\ hist.attempts[1] = 1
  /\ hist.invoked[2] # <<>>

\* C18: once stop() has been called on a running processor, nothing is
\* begun for a further raw event: only the raw event inside
\* processEventWithRetry at that moment gets attempts, handler invocations
\* and a progress commit; every other event keeps its record, and the
\* progress changes to the in-flight event's id at most.
C18_NothingBegunAfterStop ==
  [][proc.stopRequested =>
       /\ \A i \in StreamIds :
             ~InFlight(i) =>
               /\ hist'.taken[i] = hist.taken[i]
               /\ hist'.attempts[i] = hist.attempts[i]
               /\ hist'.invoked[i] = hist.invoked[i]
               /\ hist'.commits[i] = hist.commits[i]
       /\ progress' # progress => InFlight(progress'[ProcPartition])]_vars

\* stop was requested; the first event of the stream went through all its
\* attempts and its commit, the second was delivered and left alone
C18_Witness ==
  /\ proc.stopRequested
  /\ proc.pc = "loop"
  /\ proc.idx = 2
  /\ ~hist.taken[ProcStream[2].id]
  /\ hist.attempts[ProcStream[1].id] = maxRetries
  /\ hist.commits[ProcStream[1].id] = 1

\* C19: raw events are processed one at a time and in stream order: an event
\* with attempts and no commit is the one inside processEventWithRetry; when
\* anything is done for an event, every earlier event has its commit and
\* nothing has been done for a later one; and while the processor runs the
\* head of the loop is reached from the stream or the error sleep only, so
\* start() on a running processor starts no second loop.
C19_OneAtATimeInStreamOrder ==
  /\ [](\A i \in StreamIds :
          (hist.attempts[i] > 0 /\ hist.commits[i] = 0) => InFlight(i))
  /\ [][/\ \A j \in StreamIds :
             (\/ hist'.taken[j] # hist.taken[j]
              \/ hist'.attempts[j] # hist.attempts[j]
              \/ hist'.invoked[j] # hist.invoked[j]
              \/ hist'.commits[j] # hist.commits[j]) =>
               /\ \A i \in 1..(j - 1) : hist.commits[i] = 1 /\ ~InFlight(i)
               /\ \A m \in (j + 1)..MaxEvents :
                     /\ ~hist.taken[m]
                     /\ hist.attempts[m] = 0
                     /\ hist.commits[m] = 0
        /\ (proc.running /\ proc'.pc = "loop" /\ proc.pc # "loop") =>
              proc.pc \in {"observe", "sleepError"}]_vars

\* the first event went through all its attempts and its commit, and the
\* second is being attempted
C19_Witness ==
  /\ hist.attempts[1] = maxRetries
  /\ hist.commits[1] = 1
  /\ InFlight(2)
  /\ hist.attempts[2] > 0

\* the handler indexes a dispatch invokes when a handler's throw ends that
\* handler's invocation only: for every upcast result that resolves to the
\* processor's partition, every handler of its type, in registration order
RECURSIVE ContainedDispatch(_, _)
ContainedDispatch(kind, ups) ==
  IF ups = <<>> THEN <<>>
  ELSE LET e == Head(ups)
           hs == HandlersOf(e.type)
           seq == resolveSequenceId(kind, e, deserialize(e.data).payload)
       IN (IF getClassThrows(e.type) \/ seq.threw
              \/ resolve(PartitionCount, seq.id) # ProcPartition
           THEN <<>>
           ELSE [k \in 1..Len(hs) |-> hs[k].eventClass[2]])
          \o ContainedDispatch(kind, Tail(ups))

\* C25: a handler's throw is contained to that invocation: once a raw event
\* has been dispatched, every handler registered for the type of each of its
\* upcast results has been invoked, in registration order, whether or not
\* one of them threw.
C25_HandlerFailureContained ==
  \A i \in StreamIds :
    (hist.commits[i] > 0 /\ hist.attempts[i] = 1 /\ ~upcast(events[i]).threw) =>
      hist.invoked[i] = ContainedDispatch(proc.resolver, upcast(events[i]).events)

\* the processing of raw event i raises on every attempt
RaisesEveryAttempt(i) == i <= Len(events) /\ upcast(events[i]).threw

\* C26: a raw event whose processing raises on every attempt is attempted
\* exactly maxRetries times; after the k-th failure, k < maxRetries, the
\* sleep is retryDelay * 2^(k-1), and there is none after the last; then
\* the progress is committed with the event's id.
C26_RetriesThenCommit ==
  /\ [](\A i \in StreamIds :
          RaisesEveryAttempt(i) =>
            /\ hist.attempts[i] <= maxRetries
            /\ hist.delays[i] =
                 SubSeq(BackoffDelays, 1,
                        IF hist.attempts[i] < maxRetries THEN hist.attempts[i]
                        ELSE maxRetries - 1)
            /\ hist.commits[i] > 0 => hist.attempts[i] = maxRetries)
  /\ [][\A i \in StreamIds :
          (/\ RaisesEveryAttempt(i) /\ InFlight(i) /\ hist.attempts[i] = maxRetries
           /\ (hist' # hist \/ progress' # progress)) =>
            /\ progress'[ProcPartition] = i
            /\ hist'.commits[i] = 1
            /\ hist'.attempts[i] = maxRetries]_vars

\* the event whose upcast throws went through maxRetries attempts and the
\* progress is at it
C26_Witness ==
  \E i \in StreamIds :
    /\ RaisesEveryAttempt(i)
    /\ hist.attempts[i] = maxRetries
    /\ hist.delays[i] = <<1000, 2000>>
    /\ hist.commits[i] = 1
    /\ progress[ProcPartition] = i

\* raw event i is in the processor's partition by the raw-level check, and
\* every one of its upcast results resolves to another partition once
\* converted
ChecksDisagree(i) ==
  /\ i <= Len(events)
  /\ proc.resolver # "instance"
  /\ ~OtherPartition(events[i])
  /\ ~upcast(events[i]).threw
  /\ upcast(events[i]).events # <<>>
  /\ \A k \in 1..Len(upcast(events[i]).events) :
        /\ ~getClassThrows(upcast(events[i]).events[k].type)
        /\ resolve(PartitionCount,
                   resolveSequenceId(proc.resolver, upcast(events[i]).events[k],
                                     deserialize(upcast(events[i]).events[k].data).payload).id)
             # ProcPartition

\* C27: when the partition resolved from the converted event is not the
\* processor's, no handler is invoked for that upcast result and the
\* progress of the raw event is still committed by this processor; the raw
\* level check gives the event to this partition alone, so no processor of
\* the group handles it.
C27_DisagreeingEventHandledByNone ==
  \A i \in StreamIds :
    ChecksDisagree(i) =>
      /\ hist.invoked[i] = <<>>
      /\ hist.attempts[i] <= 1
      /\ (hist.taken[i] /\ ~InFlight(i)) => hist.commits[i] = 1
      /\ \A q \in 0..(PartitionCount - 1) :
            q # ProcPartition =>
              resolve(PartitionCount, resolveSequenceId(proc.resolver, events[i], 0).id) # q

\* an event with a handler for its type, whose checks disagree, was
\* processed and the progress is at it
C27_Witness ==
  \E i \in StreamIds :
    /\ ChecksDisagree(i)
    /\ HandlersOf(events[i].type) # <<>>
    /\ hist.attempts[i] = 1
    /\ hist.commits[i] = 1
    /\ progress[ProcPartition] = i

\* C6: unless stop() is called, the progress of the partition eventually
\* reaches every raw event the stream delivered to the processor.
C6_EveryDeliveredEventEventuallyPassed ==
  \A i \in StreamIds : hist.taken[i] ~> (progress[ProcPartition] >= i)

\* C33: once stop() has been called on a running processor, the next thing
\* the observation stream does ends the loop: a delivered event is not
\* taken, an ended stream or the sleep after a failed one leads back to the
\* head of the loop, the head of the loop leaves it, and so the processor
\* eventually is not running.
C33_StopEndsTheLoop ==
  /\ (proc.running /\ proc.stopRequested) ~> ~proc.running
  /\ [][(proc.stopRequested /\ [proc' EXCEPT !.restarted = proc.restarted] # proc) =>
          /\ proc.pc = "observe" =>
                /\ proc'.pc \in {"loop", "sleepError"}
                /\ progress' = progress
                /\ hist'.taken = hist.taken
          /\ proc.pc = "sleepError" => proc'.pc = "loop"
          /\ proc.pc = "loop" => proc'.pc = "idle" /\ ~proc'.running]_vars

\* stop() was called after the first event was committed; the stream then
\* delivered the second event, which was not taken, and the loop was left
C33_Witness ==
  /\ ~proc.running
  /\ proc.stopRequested
  /\ hist.commits[1] = 1
  /\ proc.idx = 2
  /\ ~hist.taken[2]

----------------------------------------------------------------------------
(* Properties of a group of processors *)

\* C34: a processor reads and writes only the progress row of its own
\* group and partition: a step of the processor of partition p leaves the
\* rows of the other partitions of the group and those of the other group
\* as they were, and the stream it opens starts after its own row.
C34_OnlyOwnProgressRow ==
  [][/\ \A k \in DOMAIN progress :
          k # ProcPartition => progress'[k] = progress[k]
     /\ (proc'.partition = ProcPartition /\ proc.pc = "loop" /\ proc'.pc = "observe") =>
          proc'.lower = progress[ProcPartition]]_vars

\* C37: with one processor per partition and a sequence resolver that reads
\* the raw event, every raw event is handled by exactly one processor, the
\* one whose partition is the resolved one: no other processor attempts it
\* or invokes a handler for it, and once every processor has passed the
\* event its owner has attempted it and, for an event type with handlers,
\* invoked them.
C37_ExactlyOneProcessorHandles ==
  \A i \in 1..Len(events) :
    LET owner == resolve(PartitionCount, resolveSequenceId("raw1", events[i], 0).id)
        histOf == [q \in 0..(PartitionCount - 1) |->
                     IF q = proc.partition THEN hist ELSE others[q].hist]
    IN /\ \A q \in 0..(PartitionCount - 1) :
            q # owner => histOf[q].attempts[i] = 0 /\ histOf[q].invoked[i] = <<>>
       /\ (\A q \in 0..(PartitionCount - 1) : histOf[q].commits[i] > 0) =>
            /\ \A q \in 0..(PartitionCount - 1) : histOf[q].commits[i] = 1
            /\ histOf[owner].attempts[i] > 0
            /\ events[i].type \in {"Created", "Renamed"} => histOf[owner].invoked[i] # <<>>

\* both processors have passed two events, one of each partition, and each
\* event's handlers were invoked by its owner
C37_Witness ==
  /\ Len(events) = 2
  /\ resolve(PartitionCount, events[1].subject) # resolve(PartitionCount, events[2].subject)
  /\ hist.commits = <<1, 1>>
  /\ \A q \in DOMAIN others : others[q].hist.commits = <<1, 1>>
  /\ \E q \in DOMAIN others : others[q].hist.invoked[1] # <<>> \/ others[q].hist.invoked[2] # <<>>
  /\ hist.invoked[1] # <<>> \/ hist.invoked[2] # <<>>

\* C40: a start() call made after stop() leaves the processor running,
\* also when it is made before the previous loop has seen the stop flag:
\* once start() has been called after the last stop(), isRunning() is true
\* and stays true.
C40_StartAfterStopRuns ==
  proc.restarted => proc.running

\* each of the two processors has committed progress of its own, at
\* different events
C34_Witness ==
  /\ progress[0] # NoEventId
  /\ progress[1] # NoEventId
  /\ progress[0] # progress[1]

----------------------------------------------------------------------------
(* Properties of the upcaster chain *)

\* the last call ran the chain us on an event of type t
UpcastOf(us, t) ==
  /\ lastUpcast.called
  /\ lastUpcast.upcasters = us
  /\ lastUpcast.event.type = t

\* the argument of the last call with another type and the payload raised
Edited(t, by) ==
  [lastUpcast.event EXCEPT !.type = t, !.data = [@ EXCEPT !["payload"] = @ + by]]

\* C20: upcast makes one pass per registered upcaster, in registration
\* order, each over every output of the pass before: the outcome of a chain
\* is its last upcaster's pass over the outcome of the chain before it; a v1
\* event through [v1 to v2, v2 to v3] comes out as one v3 event with both
\* edits, and through [v2 to v3, v1 to v2] as one v2 event with the first
\* edit only; both results of a split are seen by the upcaster after it; an
\* empty result list removes the event.
C20_OnePassPerUpcasterInOrder ==
  /\ (lastUpcast.called /\ lastUpcast.upcasters # <<>> /\ ~lastUpcast.threw) =>
        LET us == lastUpcast.upcasters
            before == UpcastFrom(SubSeq(us, 1, Len(us) - 1), <<lastUpcast.event>>)
        IN /\ ~before.threw
           /\ lastUpcast.events = UpcastPass(us[Len(us)], before.events)
  /\ UpcastOf(<<Upcasters[1], V2toV3>>, "LegacyV1") =>
        lastUpcast.events = <<Edited("Created", 110)>>
  /\ UpcastOf(<<V2toV3, Upcasters[1]>>, "LegacyV1") =>
        lastUpcast.events = <<Edited("LegacyV2", 10)>>
  /\ UpcastOf(<<SplitV1, V2toV3>>, "LegacyV1") =>
        lastUpcast.events = <<Edited("Created", 110), Edited("Created", 111)>>
  /\ UpcastOf(<<SplitV1, Upcasters[3], V2toV3>>, "LegacyV1") =>
        lastUpcast.events = <<Edited("Created", 110), Edited("Created", 111)>>
  /\ (lastUpcast.called /\ lastUpcast.event.type = "Obsolete"
        /\ \E k \in 1..Len(lastUpcast.upcasters) : lastUpcast.upcasters[k] = Upcasters[3]) =>
        lastUpcast.events = <<>> /\ ~lastUpcast.threw

\* a v1 event went through a split and a later upcaster and came out as two
\* v3 events
C20_Witness ==
  /\ UpcastOf(<<SplitV1, V2toV3>>, "LegacyV1")
  /\ Len(lastUpcast.events) = 2

\* C21: an event that no upcaster of the chain claims comes out as exactly
\* one event equal to the input, and every event the chain emits has the
\* input's id, subject, source, time and metadata: type and data alone may
\* differ.
C21_UpcastKeepsEnvelope ==
  (lastUpcast.called /\ ~lastUpcast.threw) =>
    /\ \A k \in 1..Len(lastUpcast.events) :
          /\ lastUpcast.events[k].id = lastUpcast.event.id
          /\ lastUpcast.events[k].subject = lastUpcast.event.subject
          /\ lastUpcast.events[k].source = lastUpcast.event.source
          /\ lastUpcast.events[k].time = lastUpcast.event.time
          /\ lastUpcast.events[k].metadata = lastUpcast.event.metadata
    /\ (\A k \in 1..Len(lastUpcast.upcasters) :
           ~canUpcast(lastUpcast.upcasters[k], lastUpcast.event)) =>
          lastUpcast.events = <<lastUpcast.event>>

\* a Created event went through a chain none of whose upcasters claims it
C21_Witness ==
  /\ UpcastOf(<<Upcasters[1], V2toV3, Upcasters[3]>>, "Created")
  /\ lastUpcast.events = <<lastUpcast.event>>

----------------------------------------------------------------------------
(* Properties of the partition key resolver *)

\* the 32-bit hash of the resolver's sequence id
HashOf(sequenceId) == ToInt32(RollingHash(<<0, 0>>, sequenceId))

\* C22: for every partition count N >= 1 and every string, resolve returns
\* an integer in [0, N), the same on every call, also for a string whose
\* hash is negative or -2^31.
C22_PartitionInRangeAndStable ==
  /\ \A k \in 1..Len(partitioner.results) :
        /\ partitioner.results[k] \in 0..(partitioner.partitionCount - 1)
        /\ partitioner.results[k] = partitioner.results[1]
  /\ (partitioner.results # <<>> /\ partitioner.sequenceId = <<2325, 9, 30, 12, 2>>
        /\ partitioner.partitionCount = 10) => partitioner.results[1] = 8
  /\ (partitioner.results # <<>> /\ partitioner.sequenceId = <<47>>
        /\ partitioner.partitionCount = 10) => partitioner.results[1] = 7

\* resolve was called twice on a string whose hash is -2^31, with more than
\* one partition
C22_Witness ==
  /\ Len(partitioner.results) = 2
  /\ HashOf(partitioner.sequenceId) = MinInt32
  /\ HashOf(<<2400, 47, 116, 47, 49>>) < 0
  /\ partitioner.partitionCount = 7

----------------------------------------------------------------------------
(* Properties of the task example *)

Task == TaskAfter(Len(events))

\* C23: a task's status only moves TODO to IN_PROGRESS to COMPLETED; Start
\* is accepted only on a TODO task with an assignee, Complete only on an
\* IN_PROGRESS task (on a TODO task the error says "must be started"),
\* Assign is rejected on a COMPLETED task, a rejected command publishes no
\* event, and a task that is IN_PROGRESS or COMPLETED has an assignee.
C23_TaskLifecycle ==
  /\ [](Task.status \in {"IN_PROGRESS", "COMPLETED"} => Truthy(Task.assignee))
  /\ [][taskResult' # taskResult =>
         LET before == Task
             after == Task'
             command == taskResult'.command
             accepted == taskResult'.error = ""
         IN /\ <<before.status, after.status>> \in
                  {<<"null", "null">>, <<"null", "TODO">>, <<"TODO", "TODO">>,
                   <<"TODO", "IN_PROGRESS">>, <<"IN_PROGRESS", "IN_PROGRESS">>,
                   <<"IN_PROGRESS", "COMPLETED">>, <<"COMPLETED", "COMPLETED">>}
            /\ (accepted /\ command.name = "Start") =>
                  before.status = "TODO" /\ Truthy(before.assignee)
            /\ (accepted /\ command.name = "Complete") => before.status = "IN_PROGRESS"
            /\ (command.name = "Complete" /\ before.status = "TODO") =>
                  taskResult'.error = "must be started before it can be completed"
            /\ (command.name = "Assign" /\ before.status = "COMPLETED") => ~accepted
            /\ ~accepted => events' = events /\ taskResult'.published = 0]_vars

----------------------------------------------------------------------------
(* Properties of applyStateRebuilding *)

\* the last call was made on a router configured with defs, with this
\* instance and an event of this class
Applied(defs, instance, eventName) ==
  /\ rebuilder.called
  /\ rebuilder.handlers = defs
  /\ rebuilder.instance = instance
  /\ rebuilder.eventName = eventName

Handler(eventClass, kind, tag) ==
  [instanceClass |-> InstanceClass, eventClass |-> eventClass, kind |-> kind, tag |-> tag]

\* C28: the handlers registered for the aggregate class and the event's
\* class are all invoked, in registration order, each on the instance the
\* one before returned, and the last one's return value is the result;
\* handlers of another class or another event class are not invoked.
C28_MatchingHandlersChainInOrder ==
  /\ Applied(<<Handler("Renamed", "append", 0), Handler("Renamed", "append", 100)>>,
             <<1>>, "Renamed") =>
        ~rebuilder.threw /\ rebuilder.result = <<1, 2, 102>>
  /\ Applied(<<Handler("Renamed", "append", 100), Handler("Renamed", "append", 0)>>,
             <<1>>, "Renamed") =>
        ~rebuilder.threw /\ rebuilder.result = <<1, 102, 2>>
  /\ Applied(<<Handler("Created", "create", 0), Handler("Created", "append", 300)>>,
             NoInstance, "Created") =>
        ~rebuilder.threw /\ rebuilder.result = <<1, 301>>
  /\ Applied(<<Handler("Renamed", "append", 0), [Handler("Renamed", "append", 200) EXCEPT !.instanceClass = "Other"],
               Handler("Renamed", "append", 100)>>, <<1>>, "Renamed") =>
        ~rebuilder.threw /\ rebuilder.result = <<1, 2, 102>>
  /\ Applied(<<Handler("Created", "create", 0), Handler("Renamed", "append", 0)>>,
             <<1>>, "Renamed") =>
        ~rebuilder.threw /\ rebuilder.result = <<1, 2>>
  /\ (rebuilder.called /\ \A k \in 1..Len(rebuilder.handlers) :
         \/ rebuilder.handlers[k].instanceClass # InstanceClass
         \/ rebuilder.handlers[k].eventClass # rebuilder.eventName) =>
        ~rebuilder.threw /\ rebuilder.result = rebuilder.instance

\* two handlers of the aggregate for Renamed, with a handler of another
\* class registered between them, were applied to one Renamed event
C28_Witness ==
  /\ Applied(<<Handler("Renamed", "append", 0), [Handler("Renamed", "append", 200) EXCEPT !.instanceClass = "Other"],
               Handler("Renamed", "append", 100)>>, <<1>>, "Renamed")
  /\ Len(rebuilder.result) = 3

----------------------------------------------------------------------------
(* Properties of rebuildState over a given store *)

\* the fold, from nothing and in store order, of the events the sourcing
\* mode of send c selects for its subject
FoldOfScope(c) ==
  FoldStream([threw |-> FALSE, eventId |-> NoEventId, instance |-> NoInstance],
             SelectSeq(SubSeq(events, 1, calls[c].snap),
                       LAMBDA e :
                         \/ Def(c).sourcingMode \in {"LOCAL", "RECURSIVE"}
                              /\ e.subject = Def(c).subject
                         \/ /\ Def(c).sourcingMode = "RECURSIVE"
                            /\ Len(e.subject) > Len(Def(c).subject)
                            /\ \A i \in 1..Len(Def(c).subject) :
                                  e.subject[i] = Def(c).subject[i]
                            /\ e.subject[Len(Def(c).subject) + 1] = 47))

----------------------------------------------------------------------------
(* Properties of metadata propagation *)

\* C31: the metadata serialized into a published event is a function of the
\* propagation mode. Under NONE it is exactly the event's own metadata;
\* under DEEP it has every command key and every event key; under SHALLOW
\* it is the event's metadata plus the configured keys the command metadata
\* has, and no other command value appears.
C31_MetadataFollowsPropagationMode ==
  propagation.called =>
    LET md == deserialize(propagation.data).metadata
        c == propagation.commandMetadata
        e == propagation.eventMetadata
        ks == propagation.keys \cap DOMAIN c
    IN /\ propagation.mode = "NONE" => md = e
       /\ propagation.mode = "DEEP" => DOMAIN md = (DOMAIN c) \cup (DOMAIN e)
       /\ propagation.mode = "SHALLOW" =>
            /\ DOMAIN md = (DOMAIN e) \cup ks
            /\ \A k \in ks : md[k] = c[k]
            /\ \A k \in (DOMAIN e) \ ks : md[k] = e[k]

----------------------------------------------------------------------------
(* Properties of InMemoryStateCache *)

\* C32: the cache never holds more than capacity entries, and when a
\* completed fetchAndMerge removes an entry, that entry is the least
\* recently used one (of the keys held, the one whose last completed
\* fetchAndMerge is the oldest) and not the entry just written.
C32_EvictsLeastRecentlyUsed ==
  /\ [](Len(cache) <= lru.capacity)
  /\ [][lru'.order # lru.order =>
          LET written == lru'.order[Len(lru'.order)]
              held == {cache[i].key : i \in 1..Len(cache)} \cup {written}
              removed == held \ {cache'[i].key : i \in 1..Len(cache')}
              oldest == CHOOSE i \in 1..Len(lru'.order) :
                          /\ lru'.order[i] \in held
                          /\ \A j \in 1..(i - 1) : lru'.order[j] \notin held
          IN removed # {} =>
               /\ removed = {lru'.order[oldest]}
               /\ written \notin removed]_vars

====
